---------------------------- MODULE Spec2Model ----------------------------
(***************************************************************************)
(* A model of the Prava front end (english-web): the persisted session     *)
(* store and the Protected wrapper, the quiz payload builders, the quiz    *)
(* pages' answer/navigation state and the step-by-step lesson player.      *)
(*                                                                         *)
(* Each component has its own specification over the shared variables:     *)
(*   SpecAuth     the session store (zustand + persist) and Protected      *)
(*   SpecPayload  the payload builders applied to arbitrary selections     *)
(*   SpecQuiz     a quiz page: answer, Next, Previous, Submit, Retake      *)
(*   SpecFlatten  the lesson load effect on arbitrary lesson content       *)
(*   SpecLesson   the lesson player: load, answer, Next, Previous          *)
(*   SpecLessonLoad  the lesson request against token changes and unmount  *)
(*   SpecApi      the API clients' handling of one HTTP response           *)
(*   SpecDashboard   the dashboard page's load effect                      *)
(*   SpecRegister the register page's onSubmit                             *)
(*   SpecLoading  the loading state of a lesson or quiz page, with fairness *)
(*   SpecVisit    one visit of a three-page lesson: Next, Previous, updates *)
(*   SpecBuilder  the TokenBuilder components: add and removeAt            *)
(* A specification leaves the variables of the other components at their   *)
(* initial values.                                                         *)
(***************************************************************************)
EXTENDS Integers, Sequences, FiniteSets, TLC

VARIABLES
    \* ---- session store (src/src/lib/auth-store.ts) ----
    auth,          \* the zustand state: accessToken, refreshToken, user, isAuthenticated, hydrated
    storage,       \* the "auth-storage" entry of localStorage: <<>> or <<persisted state>>
    route,         \* the current URL of the browser
    protectedImpl, \* which Protected component the build contains
    requests,      \* number of network requests issued so far
    prev,          \* history: auth, storage and requests before the handler that ran last
    op,            \* history: the handler that ran last
    \* ---- quiz pages and payload builders ----
    quizMode,      \* "lesson" or "random": the quiz the questions belong to
    quizItems,     \* the questions, in order (UIQuestion[])
    selections,    \* question id -> <<>> (undefined) or <<UISelected>>
    built,         \* <<>> or <<the payloads the builders returned>>
    quiz,          \* the quiz page's state: currentIdx, isLoading, error, isSubmitting, showResults
    inFlight,      \* the quiz-attempt requests awaiting their response

    lesson,           \* the lesson page's lesson: <<>> (null) or <<LessonDetail>>
    pages,            \* the flattened page list (Page[])
    player,           \* current, isLoading, error, updating of the lesson page
    revealedTeach,    \* the ids of the teach pages whose flag is true
    listenAnswers,    \* page id -> <<>> (null) or <<option index>>
    dictationAnswers, \* page id -> text
    buildAnswers,     \* page id -> token list
    sent,             \* the percents of the progress updates posted, in order
    pending,          \* number of progress updates awaiting their response

    loads,            \* the lesson requests in flight: records [n, token, alive]
    mount,            \* the lesson page instance: mounted, impl, issued (requests sent)

    apiImpl,          \* the file whose api() / error helper handles the response
    response,         \* the HTTP response: ok, status, statusText, raw (body text)
    apiResult,        \* <<>> or <<what the caller of api() gets: a value or an error>>

    dashboard,        \* the dashboard page: loading, summary, cats, issued (requests sent)

    reg,              \* the register page: step, loading, nonFieldError, fieldErrors
    regLog,           \* history: the requests onSubmit issued and what came of them

    builder           \* a TokenBuilder: impl (its file), tokens, list or text (its value)

authVars == <<auth, storage, route, protectedImpl, requests, prev>>
quizVars == <<quizMode, quizItems, selections, built, quiz, inFlight>>
lessonVars == <<lesson, pages, player, revealedTeach, listenAnswers,
                dictationAnswers, buildAnswers, sent, pending>>
loadVars == <<loads, mount>>
apiVars == <<apiImpl, response, apiResult>>
regVars == <<reg, regLog>>
extraVars == <<loadVars, apiVars, dashboard, regVars, builder>>

\* JavaScript null / undefined.
Null == "<null>"

\* JavaScript truthiness of a string-or-null value.
Truthy(v) == v # Null /\ v # ""

(***************************************************************************)
(* Bounds                                                                  *)
(***************************************************************************)
MaxRequests == 3

(***************************************************************************)
(* Session store                                                           *)
(***************************************************************************)
AccessTokens  == {"", "acc1", "acc2"}
RefreshTokens == {"ref1"}
Users         == {Null, "alice"}

Routes          == {"/", "/login", "/dashboard", "/lessons/1"}
ProtectedRoutes == {"/dashboard", "/lessons/1", "/quiz/random"}

\* The state the store is created with.
InitialAuth ==
    [accessToken |-> Null, refreshToken |-> Null, user |-> Null,
     isAuthenticated |-> FALSE, hydrated |-> FALSE]

setHydrated(s, v) == [s EXCEPT !.hydrated = v]

loginWithTokens_tokensOnly(s, access, refresh, u) ==
    [s EXCEPT !.accessToken = access,
              !.refreshToken = refresh,
              !.user = u]

loginWithTokens(s, access, refresh, u) ==
    [s EXCEPT !.accessToken = access,
              !.refreshToken = refresh,
              !.user = u,
              !.isAuthenticated = TRUE]

logout_keepsRefreshToken(s) ==
    [s EXCEPT !.accessToken = Null,
              !.user = Null,
              !.isAuthenticated = FALSE]

logout(s) ==
    [s EXCEPT !.accessToken = Null,
              !.refreshToken = Null,
              !.user = Null,
              !.isAuthenticated = FALSE]

init_dropsUser(s) ==
    IF Truthy(s.accessToken)
    THEN [s EXCEPT !.isAuthenticated = TRUE, !.user = Null]
    ELSE s

init(s) ==
    IF Truthy(s.accessToken) THEN [s EXCEPT !.isAuthenticated = TRUE] ELSE s

\* persist's merge of the stored entry over the freshly created state.
merge(persisted, current) == IF persisted = <<>> THEN current ELSE persisted[1]

\* The callback persist runs once the stored entry has been merged.
onRehydrateStorage(state) ==
    LET h == setHydrated(state, TRUE)
    IN  IF Truthy(state.accessToken) THEN [h EXCEPT !.isAuthenticated = TRUE] ELSE h

\* History kept for the properties: the handler and the state it started from.
Ran(name) ==
    /\ op' = name
    /\ prev' = [auth |-> auth, storage |-> storage, requests |-> requests]
    /\ UNCHANGED <<quizVars, lessonVars, extraVars>>

\* persist writes the whole state to localStorage on every set().
Set(next) ==
    /\ auth' = next
    /\ storage' = <<next>>

\* login() of the API client followed by loginWithTokens: the token request,
\* then the best-effort /me request, then the store update.
LoginOk ==
    /\ requests + 2 <= MaxRequests
    /\ \E a \in AccessTokens, r \in RefreshTokens, u \in Users :
          Set(loginWithTokens(auth, a, r, u))
    /\ requests' = requests + 2
    /\ Ran("loginWithTokens")
    /\ UNCHANGED <<route, protectedImpl>>

\* login() throws on a non-OK token response: the store is not touched.
LoginFail ==
    /\ requests + 1 <= MaxRequests
    /\ requests' = requests + 1
    /\ Ran("loginFailed")
    /\ UNCHANGED <<auth, storage, route, protectedImpl>>

Logout ==
    /\ Set(logout(auth))
    /\ Ran("logout")
    /\ UNCHANGED <<route, protectedImpl, requests>>

\* Nav.handleLogout: logout(), then router.push("/").
NavHandleLogout ==
    /\ Set(logout(auth))
    /\ route' = "/"
    /\ Ran("handleLogout")
    /\ UNCHANGED <<protectedImpl, requests>>

\* init(): set() is called only when a token is held.
AuthInit ==
    /\ IF Truthy(auth.accessToken)
       THEN Set(init(auth))
       ELSE auth' = init(auth) /\ UNCHANGED storage
    /\ Ran("init")
    /\ UNCHANGED <<route, protectedImpl, requests>>

\* A page reload: the store is created again with its initial state.
Reload ==
    /\ auth.hydrated
    /\ auth' = InitialAuth
    /\ Ran("reload")
    /\ UNCHANGED <<storage, route, protectedImpl, requests>>

\* persist's hydration: merge the stored entry, write it back, run the callback.
Rehydrate ==
    /\ ~auth.hydrated
    /\ Set(onRehydrateStorage(merge(storage, auth)))
    /\ Ran("rehydrate")
    /\ UNCHANGED <<route, protectedImpl, requests>>

Visit ==
    /\ \E r \in Routes : r # route /\ route' = r
    /\ Ran("visit")
    /\ UNCHANGED <<auth, storage, protectedImpl, requests>>

\* What Protected renders on a protected route.
ProtectedShowsChildren ==
    IF protectedImpl = "placeholder"
    THEN TRUE                                      \* return <>{children}</>
    ELSE auth.hydrated /\ auth.isAuthenticated     \* spinner, null, or children

\* The redirect effect of the guarding Protected.
ProtectedRedirect ==
    /\ protectedImpl = "guard"
    /\ route \in ProtectedRoutes
    /\ auth.hydrated /\ ~auth.isAuthenticated
    /\ route' = "/login"
    /\ Ran("redirect")
    /\ UNCHANGED <<auth, storage, protectedImpl, requests>>

\* The state a lesson page mounts with.
InitialPlayer == [current |-> 0, isLoading |-> TRUE, error |-> "", updating |-> FALSE]

LessonIdle ==
    /\ lesson = <<>>
    /\ pages = <<>>
    /\ player = InitialPlayer
    /\ revealedTeach = {}
    /\ listenAnswers = <<>>
    /\ dictationAnswers = <<>>
    /\ buildAnswers = <<>>
    /\ sent = <<>>
    /\ pending = 0

\* No lesson request is in flight.
LoadsIdle ==
    /\ loads = {}
    /\ mount = [mounted |-> FALSE, impl |-> "page.tsx", issued |-> 0]

\* No response is being handled.
ApiIdle ==
    /\ apiImpl = "auth-store.ts"
    /\ response = [ok |-> TRUE, status |-> 200, statusText |-> "OK", raw |-> <<>>]
    /\ apiResult = <<>>

\* The state the dashboard page mounts with.
InitialDashboard == [loading |-> TRUE, summary |-> <<>>, cats |-> <<>>, issued |-> 0]

DashboardIdle == dashboard = InitialDashboard

\* The state the register page mounts with.
InitialRegister ==
    [step |-> "form", loading |-> FALSE, nonFieldError |-> "",
     fieldErrors |-> [username |-> <<>>, email |-> <<>>, password |-> <<>>]]

RegisterIdle ==
    /\ reg = InitialRegister
    /\ regLog = <<>>

\* No token builder is shown.
BuilderIdle ==
    builder = [impl |-> "page.tsx", tokens |-> <<>>, list |-> <<>>, text |-> <<>>]

\* Nothing but the component under study is active.
OthersIdle ==
    /\ LoadsIdle
    /\ ApiIdle
    /\ DashboardIdle
    /\ RegisterIdle
    /\ BuilderIdle

\* The state a quiz page mounts with.
InitialQuiz ==
    [currentIdx |-> 0, isLoading |-> TRUE, error |-> "",
     isSubmitting |-> FALSE, showResults |-> FALSE]

\* No quiz is open.
QuizIdle ==
    /\ quizMode = "lesson"
    /\ quizItems = <<>>
    /\ selections = <<>>
    /\ built = <<>>
    /\ quiz = InitialQuiz
    /\ inFlight = <<>>

InitAuth ==
    /\ OthersIdle
    /\ QuizIdle
    /\ LessonIdle
    /\ auth = InitialAuth
    /\ storage = <<>>
    /\ route \in Routes
    /\ protectedImpl \in {"placeholder", "guard"}
    /\ requests = 0
    /\ prev = [auth |-> InitialAuth, storage |-> <<>>, requests |-> 0]
    /\ op = "none"

NextAuth ==
    \/ LoginOk
    \/ LoginFail
    \/ Logout
    \/ NavHandleLogout
    \/ AuthInit
    \/ Reload
    \/ Rehydrate
    \/ Visit
    \/ ProtectedRedirect

vars == <<authVars, quizVars, lessonVars, extraVars, op>>

SpecAuth == InitAuth /\ [][NextAuth]_vars

(***************************************************************************)
(* Claims about the session store and Protected                            *)
(***************************************************************************)

\* C7: logout(), called in any session state (also through Nav.handleLogout),
\* leaves accessToken, refreshToken and user null and isAuthenticated false.
C7_LogoutClearsSession ==
    op \in {"logout", "handleLogout"} =>
        /\ auth.accessToken = Null
        /\ auth.refreshToken = Null
        /\ auth.user = Null
        /\ auth.isAuthenticated = FALSE

\* logout() has run on a session that held both tokens and a user.
C7_Witness ==
    /\ op = "logout"
    /\ prev.auth.isAuthenticated
    /\ Truthy(prev.auth.accessToken)
    /\ prev.auth.refreshToken # Null
    /\ prev.auth.user # Null
    /\ auth.refreshToken = Null

\* C8: on a protected route an unauthenticated session never sees the children
\* of Protected, and once the store is hydrated the redirect to /login is due.
C8_ProtectedGuards ==
    (route \in ProtectedRoutes /\ ~auth.isAuthenticated) =>
        /\ ~ProtectedShowsChildren
        /\ auth.hydrated => ENABLED ProtectedRedirect

\* The state the stored entry and the created state merge to.
Rehydrated == IF prev.storage = <<>> THEN prev.auth ELSE prev.storage[1]

\* C9: init() and the rehydration callback set isAuthenticated when an access
\* token is held, issue no network request and keep accessToken, refreshToken
\* and user; without an access token init() changes nothing at all.
C9_InitRederivesAuthenticated ==
    /\ op = "init" =>
          /\ Truthy(prev.auth.accessToken) => auth.isAuthenticated
          /\ auth.accessToken = prev.auth.accessToken
          /\ auth.refreshToken = prev.auth.refreshToken
          /\ auth.user = prev.auth.user
          /\ requests = prev.requests
          /\ ~Truthy(prev.auth.accessToken) =>
                (auth = prev.auth /\ storage = prev.storage)
    /\ op = "rehydrate" =>
          /\ Truthy(Rehydrated.accessToken) => auth.isAuthenticated
          /\ auth.accessToken = Rehydrated.accessToken
          /\ auth.refreshToken = Rehydrated.refreshToken
          /\ auth.user = Rehydrated.user
          /\ requests = prev.requests

\* init() has run on a session that holds an access token and a user.
C9_Witness ==
    /\ op = "init"
    /\ Truthy(prev.auth.accessToken)
    /\ prev.auth.user # Null
    /\ auth.isAuthenticated
    /\ requests > 0

(***************************************************************************)
(* Quiz payload builders                                                   *)
(*                                                                         *)
(* An optional value (undefined or null in the source) is <<>> when absent *)
(* and <<v>> when present.  A text is a sequence of characters so that     *)
(* trim() is computed, not assumed.                                        *)
(***************************************************************************)
MaxQuestions == 3

Some(v) == <<v>>
None    == <<>>
OrElse(opt, dflt) == IF opt = None THEN dflt ELSE opt[1]     \* opt ?? dflt

QTypes == {"mcq", "tf", "fill", "build"}

RECURSIVE TrimStart(_)
TrimStart(t) == IF t # <<>> /\ Head(t) = " " THEN TrimStart(Tail(t)) ELSE t

RECURSIVE TrimEnd(_)
TrimEnd(t) ==
    IF t # <<>> /\ t[Len(t)] = " " THEN TrimEnd(SubSeq(t, 1, Len(t) - 1)) ELSE t

\* String.prototype.trim
Trim(t) == TrimEnd(TrimStart(t))

\* tokens.filter(Boolean): the empty string is the only falsy token.
FilterBoolean(tokens) == SelectSeq(tokens, LAMBDA t : t # "")

RECURSIVE Concat(_)
Concat(ss) == IF ss = <<>> THEN <<>> ELSE Head(ss) \o Concat(Tail(ss))

\* selections[q.id]
SelectionOf(sels, q) == IF q.id \in DOMAIN sels THEN sels[q.id] ELSE None

\* The SelectedPayload the two builders of part_006 derive from a selection:
\* <<>> for null.
SelectedPayload(sel) ==
    IF sel.type = "mcq" /\ sel.index # None THEN Some([index |-> sel.index[1]])
    ELSE IF sel.type = "tf" /\ sel.value # None THEN Some([value |-> sel.value[1]])
    ELSE IF sel.type = "fill" THEN Some([text |-> Trim(sel.text)])
    ELSE IF sel.type = "build" THEN Some([tokens |-> FilterBoolean(sel.tokens)])
    ELSE None

buildLessonSubmitPayload(lessonId, questions, sels) ==
    LET entry(q) ==
            LET sel == SelectionOf(sels, q)
            IN  IF sel = None THEN <<>>
                ELSE LET selected == SelectedPayload(sel[1])
                     IN  IF selected = None THEN <<>>
                         ELSE <<[question_id |-> q.id, selected |-> selected[1]]>>
    IN  [lesson_id |-> lessonId,
         answers   |-> Concat([i \in 1..Len(questions) |-> entry(questions[i])])]

buildRandomSubmitPayload_indexAmongAnswered(questions, sels, fallbackLessonId) ==
    LET answered(q) ==
            /\ SelectionOf(sels, q) # None
            /\ SelectedPayload(SelectionOf(sels, q)[1]) # None
        entry(idx) ==
            LET q == questions[idx]
                before == Cardinality({j \in 1..idx : answered(questions[j])})
            IN  IF ~answered(q) THEN <<>>
                ELSE <<[qid        |-> q.id,
                        lesson_id  |-> OrElse(q.lesson_id, fallbackLessonId),
                        item_index |-> OrElse(q.item_index, before),
                        selected   |-> SelectedPayload(SelectionOf(sels, q)[1])[1]]>>
    IN  [answers |-> Concat([i \in 1..Len(questions) |-> entry(i)])]

\* idx is the forEach index (0-based in the source, idx + 1 here is the
\* 1-based position).
buildRandomSubmitPayload(questions, sels, fallbackLessonId) ==
    LET entry(pos) ==
            LET q == questions[pos]
                sel == SelectionOf(sels, q)
            IN  IF sel = None THEN <<>>
                ELSE LET selected == SelectedPayload(sel[1])
                     IN  IF selected = None THEN <<>>
                         ELSE <<[qid        |-> q.id,
                                 lesson_id  |-> OrElse(q.lesson_id, fallbackLessonId),
                                 item_index |-> OrElse(q.item_index, pos),
                                 selected   |-> selected[1]]>>
    IN  [answers |-> Concat([i \in 1..Len(questions) |-> entry(i)])]

buildSubmitPayload_omitsUnanswered(lessonId, questions, sels) ==
    buildLessonSubmitPayload(lessonId, questions, sels)

\* The older builder of src/lib/quizPayload.ts: one entry per question.
buildSubmitPayload(lessonId, questions, sels) ==
    LET entry(q) ==
            LET sel == SelectionOf(sels, q)
            IN  IF sel = None
                THEN [question_id |-> q.id, selected |-> [text |-> <<>>]]
                ELSE IF q.qtype = "mcq" /\ sel[1].type = "mcq" /\ sel[1].index # None
                THEN [question_id |-> q.id, selected |-> [index |-> sel[1].index[1]]]
                ELSE IF q.qtype = "tf" /\ sel[1].type = "tf" /\ sel[1].value # None
                THEN [question_id |-> q.id, selected |-> [value |-> sel[1].value[1]]]
                ELSE IF q.qtype = "build" /\ sel[1].type = "build"
                THEN [question_id |-> q.id, selected |-> [tokens |-> sel[1].tokens]]
                ELSE [question_id |-> q.id,
                      selected |-> [text |-> IF sel[1].type = "fill"
                                             THEN sel[1].text ELSE <<>>]]
    IN  [lesson_id |-> lessonId,
         answers   |-> [i \in 1..Len(questions) |-> entry(questions[i])]]

\* QuizPage.submit (part_008): the answers array filtered on selected !== null;
\* each entry carries the UISelected object as it is held in the page state.
submitPayload(lessonId, questions, sels) ==
    LET entry(q) ==
            LET sel == SelectionOf(sels, q)
            IN  IF sel = None THEN <<>>
                ELSE <<[question_id |-> q.id, selected |-> sel[1]]>>
    IN  [lesson_id |-> lessonId,
         answers   |-> Concat([i \in 1..Len(questions) |-> entry(questions[i])])]

\* What the older QuizPage ([lessonId]/page.tsx) holds for an answer:
\* updateAnswer stores {index}, {value} or {text}, without a type tag.
QuestionAnswer(sel) ==
    IF sel.type = "mcq" THEN [index |-> sel.index[1]]
    ELSE IF sel.type = "tf" THEN [value |-> sel.value[1]]
    ELSE [text |-> sel.text]

\* A selection the handlers of a quiz page can have stored for question q:
\* its type is the question's, a radio group always yields an index or a value.
Producible(q, sel) ==
    /\ sel.type = q.qtype
    /\ sel.type = "mcq" => sel.index # None
    /\ sel.type = "tf" => sel.value # None

AllProducible(questions, sels, qtypes) ==
    \A i \in 1..Len(questions) :
        LET sel == SelectionOf(sels, questions[i])
        IN  sel # None => (Producible(questions[i], sel[1]) /\ sel[1].type \in qtypes)

\* QuizPage.handleSubmit ([lessonId]/page.tsx): answers.filter(selected !== null).
handleSubmitPayload(lessonId, questions, sels) ==
    LET entry(q) ==
            LET sel == SelectionOf(sels, q)
            IN  IF sel = None THEN <<>>
                ELSE <<[question_id |-> q.id, selected |-> QuestionAnswer(sel[1])]>>
    IN  [lesson_id |-> lessonId,
         answers   |-> Concat([i \in 1..Len(questions) |-> entry(questions[i])])]

(***************************************************************************)
(* SpecPayload: the builders applied to bounded, arbitrary inputs          *)
(***************************************************************************)
LessonIds == {7}
DefaultFallbackLessonId == 0

McqSel(index)    == [type |-> "mcq", index |-> index]
TfSel(value)     == [type |-> "tf", value |-> value]
FillSel(text)    == [type |-> "fill", text |-> text]
BuildSel(tokens) == [type |-> "build", tokens |-> tokens]

\* The selections of the question's own type, with and without a value.
Matched(qtype) ==
    CASE qtype = "mcq"   -> {McqSel(Some(1)), McqSel(None)}
      [] qtype = "tf"    -> {TfSel(Some(TRUE)), TfSel(None)}
      [] qtype = "fill"  -> {FillSel(<<" ", "a", " ">>), FillSel(<<>>)}
      [] qtype = "build" -> {BuildSel(<<"a", "">>), BuildSel(<<>>)}

\* One selection of another type, as the untyped selections map allows.
Mismatched(qtype) ==
    CASE qtype = "mcq"   -> TfSel(Some(TRUE))
      [] qtype = "tf"    -> FillSel(<<"a">>)
      [] qtype = "fill"  -> BuildSel(<<"a">>)
      [] qtype = "build" -> McqSel(Some(1))

LessonCases ==
    UNION {{[qtype |-> t, sel |-> s] :
               s \in {None} \cup {Some(m) : m \in Matched(t) \cup {Mismatched(t)}}} :
           t \in QTypes}

RandomCases ==
    {[qtype |-> "mcq",   sel |-> None],
     [qtype |-> "mcq",   sel |-> Some(McqSel(Some(1)))],
     [qtype |-> "tf",    sel |-> Some(TfSel(None))],
     [qtype |-> "fill",  sel |-> Some(FillSel(<<"a", " ">>))],
     [qtype |-> "build", sel |-> Some(BuildSel(<<"a">>))]}

OptionalLessonIds   == {None, Some(7)}
OptionalItemIndexes == {None, Some(9)}

\* The session the quiz and lesson pages run in: hydrated, holding a token.
SessionOpen ==
    /\ auth = loginWithTokens(setHydrated(InitialAuth, TRUE), "acc1", "ref1", "alice")
    /\ storage = Some(auth)
    /\ route = "/dashboard"
    /\ protectedImpl = "placeholder"
    /\ requests = 0
    /\ prev = [auth |-> InitialAuth, storage |-> <<>>, requests |-> 0]
    /\ op = "none"

InitPayload ==
    /\ OthersIdle
    /\ SessionOpen
    /\ LessonIdle
    /\ built = None
    /\ quiz = InitialQuiz
    /\ inFlight = <<>>
    /\ \E n \in 0..MaxQuestions :
         \/ /\ quizMode = "lesson"
            /\ \E cs \in [1..n -> LessonCases] :
                 /\ quizItems = [i \in 1..n |->
                        [id |-> i, qtype |-> cs[i].qtype,
                         lesson_id |-> None, item_index |-> None]]
                 /\ selections = [i \in 1..n |-> cs[i].sel]
         \/ /\ quizMode = "random"
            /\ \E cs \in [1..n -> RandomCases] :
               \E ls \in [1..n -> OptionalLessonIds] :
               \E xs \in [1..n -> OptionalItemIndexes] :
                 /\ quizItems = [i \in 1..n |->
                        [id |-> i, qtype |-> cs[i].qtype,
                         lesson_id |-> ls[i], item_index |-> xs[i]]]
                 /\ selections = [i \in 1..n |-> cs[i].sel]

\* Every way the repository builds a lesson-quiz attempt, on the same input.
BuildLessonPayloads ==
    /\ quizMode = "lesson"
    /\ built = None
    /\ \E lessonId \in LessonIds :
         built' = Some(
           [lesson |-> buildLessonSubmitPayload(lessonId, quizItems, selections),
            legacy |-> buildSubmitPayload(lessonId, quizItems, selections),
            page   |-> IF AllProducible(quizItems, selections, QTypes)
                       THEN Some(submitPayload(lessonId, quizItems, selections))
                       ELSE None,
            oldPage |-> IF AllProducible(quizItems, selections, {"mcq", "tf", "fill"})
                        THEN Some(handleSubmitPayload(lessonId, quizItems, selections))
                        ELSE None])
    /\ op' = "buildLesson"
    /\ UNCHANGED <<authVars, lessonVars, extraVars, quizMode, quizItems, selections, quiz, inFlight>>

BuildRandomPayload ==
    /\ quizMode = "random"
    /\ built = None
    /\ built' = Some(
           [random |-> buildRandomSubmitPayload(quizItems, selections,
                                                DefaultFallbackLessonId)])
    /\ op' = "buildRandom"
    /\ UNCHANGED <<authVars, lessonVars, extraVars, quizMode, quizItems, selections, quiz, inFlight>>

NextPayload ==
    \/ BuildLessonPayloads
    \/ BuildRandomPayload

SpecPayload == InitPayload /\ [][NextPayload]_vars

(***************************************************************************)
(* Claims about the payload builders                                       *)
(***************************************************************************)

\* A question has an answer when a selection is held for it and, for a radio
\* question, the selection holds a value.
HasAnswer(q) ==
    LET sel == SelectionOf(selections, q)
    IN  /\ sel # None
        /\ sel[1].type = "mcq" => sel[1].index # None
        /\ sel[1].type = "tf" => sel[1].value # None

AnsweredCount == Cardinality({i \in 1..Len(quizItems) : HasAnswer(quizItems[i])})

\* The lesson-quiz payloads built from the current input.
LessonPayloads ==
    {built[1].lesson, built[1].legacy}
        \cup (IF built[1].page = None THEN {} ELSE {built[1].page[1]})
        \cup (IF built[1].oldPage = None THEN {} ELSE {built[1].oldPage[1]})

\* C3: a lesson-quiz payload built from n questions of which k have an answer
\* has exactly k answer entries, whichever questions are answered.
C3_LessonPayloadHasOneEntryPerAnswer ==
    (op = "buildLesson") =>
        \A p \in LessonPayloads : Len(p.answers) = AnsweredCount

\* The part of C3 that the omitting builder and the two page handlers meet.
C3_OmittingBuildersHaveOneEntryPerAnswer ==
    (op = "buildLesson") =>
        \A p \in LessonPayloads \ {built[1].legacy} : Len(p.answers) = AnsweredCount

\* The fields selected must have for a selection of the given type.
SelectedFields(type) ==
    CASE type = "mcq" -> {"index"}
      [] type = "tf" -> {"value"}
      [] type = "fill" -> {"text"}
      [] type = "build" -> {"tokens"}

EntryShapeOk(p) ==
    /\ \A i \in 1..Len(p.answers) :
          LET e == p.answers[i]
              q == quizItems[e.question_id]
          IN  /\ DOMAIN e = {"question_id", "selected"}
              /\ HasAnswer(q)
              /\ DOMAIN e.selected = SelectedFields(SelectionOf(selections, q)[1].type)
    /\ \A i, j \in 1..Len(p.answers) :
          i < j => p.answers[i].question_id < p.answers[j].question_id

\* The input of the worked example: three questions, the first answered
\* mcq index 1, the second tf true, the third unanswered.
IsLiteralExample ==
    /\ Len(quizItems) = 3
    /\ selections[1] = Some(McqSel(Some(1)))
    /\ selections[2] = Some(TfSel(Some(TRUE)))
    /\ selections[3] = None

LiteralPayload ==
    [lesson_id |-> 7,
     answers |-> <<[question_id |-> 1, selected |-> [index |-> 1]],
                   [question_id |-> 2, selected |-> [value |-> TRUE]]>>]

\* C4: every entry of a lesson-quiz payload, as built by buildLessonSubmitPayload
\* and as sent by QuizPage.submit, is {question_id, selected} with selected
\* holding exactly the one field of the answer's type, in question order; the
\* worked example yields the literal payload.
C4_LessonPayloadEntryShape ==
    (op = "buildLesson") =>
        \A p \in {built[1].lesson}
                   \cup (IF built[1].page = None THEN {} ELSE {built[1].page[1]}) :
            /\ EntryShapeOk(p)
            /\ IsLiteralExample => p = LiteralPayload

\* The part of C4 that buildLessonSubmitPayload meets.
C4_BuilderEntryShape ==
    (op = "buildLesson") =>
        /\ EntryShapeOk(built[1].lesson)
        /\ IsLiteralExample => built[1].lesson = LiteralPayload

\* C5: every entry of the random-quiz payload carries lesson_id and
\* item_index; a source item without lesson_id yields the fallback 0, one
\* without item_index yields its 1-based position among all the questions,
\* and every question with an answer has its entry.
C5_RandomEntriesCarryDefaults ==
    (op = "buildRandom") =>
        LET answers == built[1].random.answers
        IN  /\ Len(answers) = AnsweredCount
            /\ \A i \in 1..Len(answers) :
                  LET e == answers[i]
                      q == quizItems[e.qid]
                  IN  /\ {"lesson_id", "item_index"} \subseteq DOMAIN e
                      /\ e.lesson_id =
                            (IF q.lesson_id = None THEN 0 ELSE q.lesson_id[1])
                      /\ e.item_index =
                            (IF q.item_index = None THEN e.qid ELSE q.item_index[1])

\* The random builder has run on a quiz whose first question is unanswered
\* and whose second, answered, has neither lesson_id nor item_index.
C5_Witness ==
    /\ op = "buildRandom"
    /\ Len(quizItems) >= 2
    /\ ~HasAnswer(quizItems[1])
    /\ quizItems[2].lesson_id = None
    /\ quizItems[2].item_index = None
    /\ Len(built[1].random.answers) >= 1
    /\ built[1].random.answers[1].qid = 2
    /\ built[1].random.answers[1].item_index = 2
    /\ built[1].random.answers[1].lesson_id = 0

(***************************************************************************)
(* SpecQuiz: a quiz page.  quizMode = "random" is RandomQuizPage           *)
(* (quiz/random/page.tsx), quizMode = "lesson" is QuizPage (part_008).     *)
(* currentIdx is 0-based as in the source; quizItems is 1-based.           *)
(***************************************************************************)
MaxQuizItems == 2

OptionIndexes == {0, 1}
Texts         == {<<>>, <<"a">>}
BuildTokens   == <<"a", "a">>

Count(seq, t) == Cardinality({i \in DOMAIN seq : seq[i] = t})

\* TokenBuilder: the tiles still offered, add and removeAt.
Remaining(tokens, selected) ==
    SelectSeq(tokens, LAMBDA t : Count(selected, t) < Count(tokens, t))

add(selected, t) == Append(selected, t)

\* i is 1-based here: next.splice(i - 1, 1).
removeAt(selected, i) ==
    SubSeq(selected, 1, i - 1) \o SubSeq(selected, i + 1, Len(selected))

total == Len(quizItems)

\* items[currentIdx]: <<>> when out of range.
current ==
    IF quiz.currentIdx + 1 \in 1..total THEN Some(quizItems[quiz.currentIdx + 1]) ELSE None

RandomCanProceed_anySelection(q, sel) ==
    /\ q # None
    /\ sel # None

\* RandomQuizPage.canProceed
RandomCanProceed(q, sel) ==
    /\ q # None
    /\ sel # None
    /\ CASE q[1].qtype = "build" -> sel[1].type = "build" /\ Len(sel[1].tokens) > 0
         [] q[1].qtype = "mcq"   -> sel[1].type = "mcq" /\ sel[1].index # None
         [] q[1].qtype = "tf"    -> sel[1].type = "tf" /\ sel[1].value # None
         [] q[1].qtype = "fill"  -> sel[1].type = "fill"
         [] OTHER -> FALSE

\* QuizPage (part_008): const canProceed = !!sel && (build ? tokens.length > 0 : true)
QuizPageCanProceed(q, sel) ==
    /\ q # None
    /\ sel # None
    /\ q[1].qtype = "build" => (sel[1].type = "build" /\ Len(sel[1].tokens) > 0)

canProceed ==
    LET sel == IF current = None THEN None ELSE SelectionOf(selections, current[1])
    IN  IF quizMode = "random"
        THEN RandomCanProceed(current, sel)
        ELSE QuizPageCanProceed(current, sel)

\* The question view is rendered: not the spinner, the error card or the results.
QuestionShown ==
    /\ ~quiz.isLoading
    /\ quiz.error = ""
    /\ current # None
    /\ ~quiz.showResults

QuizStep(name) ==
    /\ op' = name
    /\ UNCHANGED <<authVars, lessonVars, extraVars, quizMode, built>>

ServerQuizzes ==
    UNION {[1..n -> {[id |-> i, qtype |-> t, lesson_id |-> None, item_index |-> None] :
                        i \in 1..n, t \in QTypes}] : n \in 0..MaxQuizItems}

\* The load effect succeeds: the items are stored, every selection undefined.
QuizLoadOk ==
    /\ quiz.isLoading
    /\ Truthy(auth.accessToken)
    /\ \E items \in ServerQuizzes :
         /\ \A i \in 1..Len(items) : items[i].id = i
         /\ quizItems' = items
         /\ selections' = [i \in 1..Len(items) |-> None]
    /\ quiz' = [quiz EXCEPT !.isLoading = FALSE]
    /\ UNCHANGED inFlight
    /\ QuizStep("loaded")

QuizLoadFail ==
    /\ quiz.isLoading
    /\ Truthy(auth.accessToken)
    /\ quiz' = [quiz EXCEPT !.isLoading = FALSE, !.error = "Failed to load quiz"]
    /\ UNCHANGED <<quizItems, selections, inFlight>>
    /\ QuizStep("loadFailed")

\* setAnswer(current.id, sel)
setAnswer(qid, sel) == selections' = [selections EXCEPT ![qid] = Some(sel)]

AnswerMcq ==
    /\ QuestionShown
    /\ current[1].qtype = "mcq"
    /\ \E i \in OptionIndexes : setAnswer(current[1].id, McqSel(Some(i)))
    /\ UNCHANGED <<quizItems, quiz, inFlight>>
    /\ QuizStep("answer")

AnswerTf ==
    /\ QuestionShown
    /\ current[1].qtype = "tf"
    /\ \E v \in BOOLEAN : setAnswer(current[1].id, TfSel(Some(v)))
    /\ UNCHANGED <<quizItems, quiz, inFlight>>
    /\ QuizStep("answer")

AnswerFill ==
    /\ QuestionShown
    /\ current[1].qtype = "fill"
    /\ \E t \in Texts : setAnswer(current[1].id, FillSel(t))
    /\ UNCHANGED <<quizItems, quiz, inFlight>>
    /\ QuizStep("answer")

\* The token list TokenBuilder is given: sel.tokens, or [] without a build selection.
BuildValue ==
    LET sel == SelectionOf(selections, current[1])
    IN  IF sel # None /\ sel[1].type = "build" THEN sel[1].tokens ELSE <<>>

BuildAdd ==
    /\ QuestionShown
    /\ current[1].qtype = "build"
    /\ LET remaining == Remaining(BuildTokens, BuildValue)
       IN  \E k \in DOMAIN remaining :
              setAnswer(current[1].id, BuildSel(add(BuildValue, remaining[k])))
    /\ UNCHANGED <<quizItems, quiz, inFlight>>
    /\ QuizStep("answer")

BuildRemoveAt ==
    /\ QuestionShown
    /\ current[1].qtype = "build"
    /\ \E i \in DOMAIN BuildValue :
          setAnswer(current[1].id, BuildSel(removeAt(BuildValue, i)))
    /\ UNCHANGED <<quizItems, quiz, inFlight>>
    /\ QuizStep("answer")

\* The Next button: rendered unless on the last question, disabled unless canProceed.
QuizNext ==
    /\ QuestionShown
    /\ quiz.currentIdx # total - 1
    /\ canProceed
    /\ quiz' = [quiz EXCEPT !.currentIdx = quiz.currentIdx + 1]
    /\ UNCHANGED <<quizItems, selections, inFlight>>
    /\ QuizStep("next")

\* The Previous button: disabled on the first question.
QuizPrevious ==
    /\ QuestionShown
    /\ quiz.currentIdx # 0
    /\ quiz' = [quiz EXCEPT !.currentIdx =
                   IF quiz.currentIdx - 1 > 0 THEN quiz.currentIdx - 1 ELSE 0]
    /\ UNCHANGED <<quizItems, selections, inFlight>>
    /\ QuizStep("previous")

SubmitEnabled_whileSubmitting ==
    /\ QuestionShown
    /\ quiz.currentIdx = total - 1
    /\ canProceed

\* The Submit button is rendered on the last question and enabled.
SubmitEnabled ==
    /\ QuestionShown
    /\ quiz.currentIdx = total - 1
    /\ canProceed
    /\ ~quiz.isSubmitting

\* handleSubmit / submit up to the await: the payload is built and posted.
QuizSubmit ==
    /\ SubmitEnabled
    /\ Truthy(auth.accessToken)
    /\ total # 0
    /\ quiz' = [quiz EXCEPT !.isSubmitting = TRUE]
    /\ \E lessonId \in LessonIds :
         inFlight' = Append(inFlight,
            IF quizMode = "random"
            THEN buildRandomSubmitPayload(quizItems, selections, DefaultFallbackLessonId)
            ELSE submitPayload(lessonId, quizItems, selections))
    /\ UNCHANGED <<quizItems, selections>>
    /\ QuizStep("submit")

QuizSubmitOk ==
    /\ inFlight # <<>>
    /\ inFlight' = Tail(inFlight)
    /\ quiz' = [quiz EXCEPT !.showResults = TRUE, !.isSubmitting = FALSE]
    /\ UNCHANGED <<quizItems, selections>>
    /\ QuizStep("submitted")

QuizSubmitFail ==
    /\ inFlight # <<>>
    /\ inFlight' = Tail(inFlight)
    /\ quiz' = [quiz EXCEPT !.error = "Failed to submit quiz", !.isSubmitting = FALSE]
    /\ UNCHANGED <<quizItems, selections>>
    /\ QuizStep("submitFailed")

\* The Retake button of the random quiz's results view.
Retake ==
    /\ quizMode = "random"
    /\ ~quiz.isLoading /\ quiz.error = "" /\ current # None /\ quiz.showResults
    /\ quiz' = [quiz EXCEPT !.showResults = FALSE, !.currentIdx = 0]
    /\ selections' = [i \in 1..total |-> None]
    /\ UNCHANGED <<quizItems, inFlight>>
    /\ QuizStep("retake")

InitQuiz ==
    /\ OthersIdle
    /\ SessionOpen
    /\ LessonIdle
    /\ quizMode \in {"random", "lesson"}
    /\ quizItems = <<>>
    /\ selections = <<>>
    /\ built = None
    /\ quiz = InitialQuiz
    /\ inFlight = <<>>

NextQuiz ==
    \/ QuizLoadOk
    \/ QuizLoadFail
    \/ AnswerMcq
    \/ AnswerTf
    \/ AnswerFill
    \/ BuildAdd
    \/ BuildRemoveAt
    \/ QuizNext
    \/ QuizPrevious
    \/ QuizSubmit
    \/ QuizSubmitOk
    \/ QuizSubmitFail
    \/ Retake

SpecQuiz == InitQuiz /\ [][NextQuiz]_vars

\* The selection held for question q has the shape of q's declared qtype.
ShapeMatches(q) ==
    LET sel == SelectionOf(selections, q)
    IN  /\ sel # None
        /\ sel[1].type = q.qtype
        /\ q.qtype = "mcq" => sel[1].index # None
        /\ q.qtype = "tf" => sel[1].value # None
        /\ q.qtype = "build" => sel[1].tokens # <<>>

\* C6: whenever the Submit control is enabled, every question of the quiz
\* holds a selection of the shape of its declared qtype.
C6_SubmitEnabledImpliesShapes ==
    SubmitEnabled => \A i \in 1..total : ShapeMatches(quizItems[i])

\* Submit is enabled on the last of two questions after the user went back and
\* forth, the first question being a build question.
C6_Witness ==
    /\ SubmitEnabled
    /\ total = 2
    /\ quizItems[1].qtype = "build"
    /\ quizItems[2].qtype = "fill"
    /\ op = "next"
    /\ quizMode = "random"

(***************************************************************************)
(* The lesson page (lessons/[id]/page.tsx): the load effect flattens the   *)
(* lesson's content sections into pages.                                   *)
(*   section  [type, id, n]    n = items / examples / tasks it holds       *)
(*   page     [kind, id, sectionId]                                        *)
(* An id `${sec.id}-${i}` is the sequence sec.id \o <<i>>.                  *)
(***************************************************************************)
MaxSections == 2

\* The lengths of the item, example and task lists of a section.
ItemCounts == {0, 1, 2}

SectionTypes ==
    {"overview", "teach", "grammar", "patterns", "build", "listen", "dictation",
     "review", "unknown"}

\* The section types that hold a list (items, examples, tasks) and the kind
\* of the pages made from it.
ListKind(type) ==
    CASE type = "teach"     -> "teach"
      [] type = "patterns"  -> "pattern"
      [] type = "build"     -> "build"
      [] type = "listen"    -> "listen"
      [] type = "dictation" -> "dictation"
      [] OTHER -> ""

Page(kind, id, sectionId) == [kind |-> kind, id |-> id, sectionId |-> sectionId]

PagesOf_onePagePerSection(sec) ==
    IF sec.type = "unknown" THEN <<>> ELSE
    <<Page(IF ListKind(sec.type) = "" THEN sec.type ELSE ListKind(sec.type), sec.id, sec.id)>>

\* One iteration of `for (const sec of content.sections)`: the pages pushed.
PagesOf(sec) ==
    CASE sec.type \in {"overview", "grammar", "review"} ->
            <<Page(sec.type, sec.id, sec.id)>>
      [] ListKind(sec.type) # "" ->
            [k \in 1..sec.n |-> Page(ListKind(sec.type), sec.id \o <<k - 1>>, sec.id)]
      [] OTHER -> <<>>

RECURSIVE FlattenSections(_)
FlattenSections(sections) ==
    IF sections = <<>> THEN <<>>
    ELSE PagesOf(Head(sections)) \o FlattenSections(Tail(sections))

\* The fallback flow: intro, one teach page per flashcard, review.
FlattenFlashcards(flashcards) ==
    <<Page("overview", <<"intro">>, <<"intro">>)>>
    \o [k \in 1..flashcards |-> Page("teach", <<"v", k - 1>>, <<"teach">>)]
    \o <<Page("review", <<"review">>, <<"review">>)>>

\* content?.sections?.length
HasContent(data) == data.content # <<>> /\ Len(data.content[1]) > 0

Flatten(data) ==
    IF HasContent(data) THEN FlattenSections(data.content[1])
    ELSE FlattenFlashcards(data.flashcards)

IdsOfKind(ps, kind) == {ps[i].id : i \in {j \in DOMAIN ps : ps[j].kind = kind}}

\* listenInit / dictInit; the fallback flow leaves both maps as they were.
listenInit(ps) == [id \in IdsOfKind(ps, "listen") |-> <<>>]
dictInit(ps)   == [id \in IdsOfKind(ps, "dictation") |-> <<>>]

SectionShapes(counts) ==
    {[type |-> t, n |-> IF ListKind(t) = "" THEN 0 ELSE c] : t \in SectionTypes, c \in counts}

\* Section lists of 0..len sections; the section at position i has id <<"s", i>>.
Contents(len, counts) ==
    UNION {{[i \in 1..m |-> [type |-> f[i].type, id |-> <<"s", i>>, n |-> f[i].n]] :
                f \in [1..m -> SectionShapes(counts)]} : m \in 0..len}

\* The lesson details the server may answer with: no content, or section lists.
Lessons(len, counts) ==
    {[content |-> <<>>, flashcards |-> c] : c \in counts}
    \cup {[content |-> <<cs>>, flashcards |-> c] : cs \in Contents(len, counts), c \in {0, 1}}

ServerLessons == Lessons(MaxSections, ItemCounts)

LessonStep(name) ==
    /\ op' = name
    /\ UNCHANGED <<authVars, quizVars, extraVars>>

\* The try block of the load effect with the response `data`.
Loaded(data) ==
    /\ Truthy(auth.accessToken)
    /\ lesson' = <<data>>
    /\ pages' = Flatten(data)
    /\ IF HasContent(data)
       THEN /\ listenAnswers' = listenInit(Flatten(data))
            /\ dictationAnswers' = dictInit(Flatten(data))
       ELSE UNCHANGED <<listenAnswers, dictationAnswers>>
    /\ player' = [player EXCEPT !.isLoading = FALSE]
    /\ UNCHANGED <<revealedTeach, buildAnswers, sent, pending>>
    /\ LessonStep("lessonLoaded")

\* The load effect succeeds with any lesson the server may answer with.
LessonLoadOk ==
    /\ player.isLoading
    /\ \E data \in ServerLessons : Loaded(data)

\* The catch block: getLessonDetail threw.
LessonLoadFail ==
    /\ player.isLoading
    /\ Truthy(auth.accessToken)
    /\ player' = [player EXCEPT !.isLoading = FALSE, !.error = "Failed to load lesson"]
    /\ UNCHANGED <<lesson, pages, revealedTeach, listenAnswers, dictationAnswers,
                   buildAnswers, sent, pending>>
    /\ LessonStep("lessonFailed")

InitFlatten ==
    /\ OthersIdle
    /\ SessionOpen
    /\ QuizIdle
    /\ LessonIdle

NextFlatten ==
    \/ LessonLoadOk
    \/ LessonLoadFail

SpecFlatten == InitFlatten /\ [][NextFlatten]_vars

(***************************************************************************)
(* Claims about the flattened page list                                    *)
(***************************************************************************)
KindCount(kind) == Cardinality({i \in DOMAIN pages : pages[i].kind = kind})

RECURSIVE Sum(_)
Sum(ns) == IF ns = <<>> THEN 0 ELSE Head(ns) + Sum(Tail(ns))

LessonLoaded == op = "lessonLoaded"

ContentPath == HasContent(lesson[1])

Sections == lesson[1].content[1]

\* The number of items, examples or tasks held by the sections of a type.
HeldBy(type) ==
    Sum([i \in DOMAIN Sections |-> IF Sections[i].type = type THEN Sections[i].n ELSE 0])

SectionsOf(type) == Cardinality({i \in DOMAIN Sections : Sections[i].type = type})

\* N: the teach items of the content sections, or the flashcards.
VocabularyItems == IF ContentPath THEN HeldBy("teach") ELSE lesson[1].flashcards

\* The position of the section a page was made from.
SectionIndex(page) == CHOOSE i \in DOMAIN Sections : Sections[i].id = page.sectionId

\* Pages follow the order of their sections, and the order of the items within one.
InSectionOrder ==
    ContentPath =>
        \A i, j \in DOMAIN pages :
            i < j =>
                \/ SectionIndex(pages[i]) < SectionIndex(pages[j])
                \/ /\ SectionIndex(pages[i]) = SectionIndex(pages[j])
                   /\ Len(pages[i].id) = 3 /\ Len(pages[j].id) = 3
                   /\ pages[i].id[3] < pages[j].id[3]

\* The pages other than overview and review: N teach pages, one page per
\* grammar section, per pattern example and per build / listen / dictation task.
OtherPagesAsStated ==
    /\ KindCount("teach") = VocabularyItems
    /\ ContentPath =>
          /\ KindCount("grammar") = SectionsOf("grammar")
          /\ KindCount("pattern") = HeldBy("patterns")
          /\ KindCount("build") = HeldBy("build")
          /\ KindCount("listen") = HeldBy("listen")
          /\ KindCount("dictation") = HeldBy("dictation")
    /\ ~ContentPath => Len(pages) = VocabularyItems + 2
    /\ InSectionOrder

\* C2 as stated: every loaded lesson with N vocabulary items is flattened to
\* exactly N teach pages, exactly one overview page and exactly one review
\* page, plus one page per grammar section, pattern example and task, in
\* section order.
C2_FlattenAsStated ==
    LessonLoaded =>
        /\ OtherPagesAsStated
        /\ KindCount("overview") = 1
        /\ KindCount("review") = 1

\* C2: every loaded lesson with N vocabulary items is flattened to exactly N
\* teach pages, one page per grammar section, pattern example and task, in
\* section order, and one overview (review) page per overview (review) section
\* of the content; exactly one of each only in the fallback flow.
C2_FlattenPagesPerSection ==
    LessonLoaded =>
        /\ OtherPagesAsStated
        /\ KindCount("overview") = IF ContentPath THEN SectionsOf("overview") ELSE 1
        /\ KindCount("review") = IF ContentPath THEN SectionsOf("review") ELSE 1

\* A lesson was loaded whose content has two teach items, a task and no
\* overview section.
C2_Witness ==
    /\ LessonLoaded
    /\ ContentPath
    /\ VocabularyItems = 2
    /\ KindCount("teach") = 2
    /\ KindCount("listen") = 1
    /\ SectionsOf("overview") = 0
    /\ KindCount("overview") = 0

(***************************************************************************)
(* SpecLesson: the lesson player, i.e. navigation and the answers that     *)
(* gate it.  player.current is 0-based as in the source; pages is 1-based. *)
(***************************************************************************)
MaxPlayerSections == 2
MaxSent           == 2

ListenOptions  == {0, 1}
DictationTexts == {<<>>, <<" ">>, <<"a">>}
TaskTokens     == <<"a", "a">>

\* const total = pages.length || 1
pagesTotal == IF Len(pages) = 0 THEN 1 ELSE Len(pages)

\* Math.round(x / y * 100) for non-negative x and positive y.
RoundPercent(x, y) == (200 * x + y) \div (2 * y)

\* pages[current]: <<>> when undefined.
page == IF player.current + 1 \in DOMAIN pages THEN <<pages[player.current + 1]>> ELSE <<>>

canProceedPage_untrimmed ==
    IF page = <<>> THEN FALSE
    ELSE LET p == page[1]
         IN  CASE p.kind = "teach"     -> p.id \in revealedTeach
               [] p.kind = "listen"    -> p.id \notin DOMAIN listenAnswers \/ listenAnswers[p.id] # <<>>
               [] p.kind = "dictation" ->
                     p.id \in DOMAIN dictationAnswers /\ Len(dictationAnswers[p.id]) > 0
               [] p.kind = "build"     ->
                     p.id \in DOMAIN buildAnswers /\ Len(buildAnswers[p.id]) > 0
               [] OTHER -> TRUE

\* canProceed of the lesson page.  listenAnswers[p.id] !== null also holds
\* for an id the map does not contain (undefined).
canProceedPage ==
    IF page = <<>> THEN FALSE
    ELSE LET p == page[1]
         IN  CASE p.kind = "teach"     -> p.id \in revealedTeach
               [] p.kind = "listen"    -> p.id \notin DOMAIN listenAnswers \/ listenAnswers[p.id] # <<>>
               [] p.kind = "dictation" ->
                     p.id \in DOMAIN dictationAnswers /\ Len(Trim(dictationAnswers[p.id])) > 0
               [] p.kind = "build"     ->
                     p.id \in DOMAIN buildAnswers /\ Len(buildAnswers[p.id]) > 0
               [] OTHER -> TRUE

prevIndex_unclamped(c) == c - 1

\* prev: Math.max(0, c - 1)
prevIndex(c) == IF c - 1 > 0 THEN c - 1 ELSE 0

\* next: Math.min(c + 1, total - 1)
nextIndex(c) == IF c + 1 < pagesTotal - 1 THEN c + 1 ELSE pagesTotal - 1

\* The page view is rendered: not the spinner, not the error card.
PlayerShown ==
    /\ ~player.isLoading
    /\ player.error = ""
    /\ lesson # <<>>
    /\ page # <<>>

\* The disabled props of the bottom dock's buttons.
PreviousDisabled == player.current = 0
ContinueDisabled == ~canProceedPage

\* The lessons the player is explored on: every section holds one item.
PlayerLessons == Lessons(MaxPlayerSections, {1})

PlayerLoadOk ==
    /\ player.isLoading
    /\ \E data \in PlayerLessons : Loaded(data)

Reveal_toggles ==
    /\ PlayerShown
    /\ page[1].kind = "teach"
    /\ revealedTeach' = IF page[1].id \in revealedTeach
                         THEN revealedTeach \ {page[1].id}
                         ELSE revealedTeach \cup {page[1].id}
    /\ UNCHANGED <<lesson, pages, player, listenAnswers, dictationAnswers,
                   buildAnswers, sent, pending>>
    /\ LessonStep("answer")

\* A click on the card or on "Show translation".
Reveal ==
    /\ PlayerShown
    /\ page[1].kind = "teach"
    /\ revealedTeach' = revealedTeach \cup {page[1].id}
    /\ UNCHANGED <<lesson, pages, player, listenAnswers, dictationAnswers,
                   buildAnswers, sent, pending>>
    /\ LessonStep("answer")

\* s => ({ ...s, [id]: v })
Put(map, id, v) == [k \in DOMAIN map \cup {id} |-> IF k = id THEN v ELSE map[k]]

ListenChoose ==
    /\ PlayerShown
    /\ page[1].kind = "listen"
    /\ \E i \in ListenOptions : listenAnswers' = Put(listenAnswers, page[1].id, <<i>>)
    /\ UNCHANGED <<lesson, pages, player, revealedTeach, dictationAnswers,
                   buildAnswers, sent, pending>>
    /\ LessonStep("answer")

DictationType ==
    /\ PlayerShown
    /\ page[1].kind = "dictation"
    /\ \E t \in DictationTexts : dictationAnswers' = Put(dictationAnswers, page[1].id, t)
    /\ UNCHANGED <<lesson, pages, player, revealedTeach, listenAnswers,
                   buildAnswers, sent, pending>>
    /\ LessonStep("answer")

\* buildAnswers[p.id] || []
TaskValue == IF page[1].id \in DOMAIN buildAnswers THEN buildAnswers[page[1].id] ELSE <<>>

TaskAdd ==
    /\ PlayerShown
    /\ page[1].kind = "build"
    /\ LET remaining == Remaining(TaskTokens, TaskValue)
       IN  \E k \in DOMAIN remaining :
              buildAnswers' = Put(buildAnswers, page[1].id, add(TaskValue, remaining[k]))
    /\ UNCHANGED <<lesson, pages, player, revealedTeach, listenAnswers,
                   dictationAnswers, sent, pending>>
    /\ LessonStep("answer")

TaskRemoveAt ==
    /\ PlayerShown
    /\ page[1].kind = "build"
    /\ \E i \in DOMAIN TaskValue :
          buildAnswers' = Put(buildAnswers, page[1].id, removeAt(TaskValue, i))
    /\ UNCHANGED <<lesson, pages, player, revealedTeach, listenAnswers,
                   dictationAnswers, sent, pending>>
    /\ LessonStep("answer")

next_dropsBuildAnswers ==
    LET n == nextIndex(player.current)
    IN  /\ Len(sent) < MaxSent
        /\ sent' = Append(sent, RoundPercent(n + 1, pagesTotal))
        /\ pending' = pending + 1
        /\ player' = [player EXCEPT !.current = n, !.updating = TRUE]
        /\ buildAnswers' = <<>>
        /\ UNCHANGED <<lesson, pages, revealedTeach, listenAnswers, dictationAnswers>>

\* next(): the pointer moves and persistProgress posts the new percent; at
\* most `limit` updates are explored.
nextWithin(limit) ==
    LET n == nextIndex(player.current)
    IN  /\ Len(sent) < limit
        /\ IF lesson # <<>> /\ Truthy(auth.accessToken)
           THEN /\ sent' = Append(sent, RoundPercent(n + 1, pagesTotal))
                /\ pending' = pending + 1
                /\ player' = [player EXCEPT !.current = n, !.updating = TRUE]
           ELSE /\ player' = [player EXCEPT !.current = n]
                /\ UNCHANGED <<sent, pending>>
        /\ UNCHANGED <<lesson, pages, revealedTeach, listenAnswers, dictationAnswers,
                       buildAnswers>>

next == nextWithin(MaxSent)

\* The Continue button, which cannot be clicked while disabled.
Continue ==
    /\ PlayerShown
    /\ ~ContinueDisabled
    /\ next
    /\ LessonStep("next")

\* handleKey with ArrowRight or Enter, in any view of the page.
KeyNext ==
    /\ IF canProceedPage THEN next ELSE UNCHANGED lessonVars
    /\ LessonStep("keyNext")

\* The Previous button.
Previous ==
    /\ PlayerShown
    /\ ~PreviousDisabled
    /\ player' = [player EXCEPT !.current = prevIndex(player.current)]
    /\ UNCHANGED <<lesson, pages, revealedTeach, listenAnswers, dictationAnswers,
                   buildAnswers, sent, pending>>
    /\ LessonStep("previous")

\* handleKey with ArrowLeft, in any view of the page.
KeyPrevious ==
    /\ player' = [player EXCEPT !.current = prevIndex(player.current)]
    /\ UNCHANGED <<lesson, pages, revealedTeach, listenAnswers, dictationAnswers,
                   buildAnswers, sent, pending>>
    /\ LessonStep("keyPrevious")

ProgressSettled_surfacesError ==
    /\ pending > 0
    /\ pending' = pending - 1
    /\ UNCHANGED <<lesson, pages, revealedTeach, listenAnswers, dictationAnswers,
                   buildAnswers, sent>>
    /\ \/ /\ player' = [player EXCEPT !.updating = FALSE]
          /\ LessonStep("progressSaved")
       \/ /\ player' = [player EXCEPT !.updating = FALSE, !.error = "Failed to save progress"]
          /\ LessonStep("progressFailed")

\* A progress update is answered, with success or with an error: the finally
\* block of persistProgress, the error being swallowed by next's catch.
ProgressSettled ==
    /\ pending > 0
    /\ pending' = pending - 1
    /\ player' = [player EXCEPT !.updating = FALSE]
    /\ UNCHANGED <<lesson, pages, revealedTeach, listenAnswers, dictationAnswers,
                   buildAnswers, sent>>
    /\ \E outcome \in {"progressSaved", "progressFailed"} : LessonStep(outcome)

InitLesson ==
    /\ OthersIdle
    /\ SessionOpen
    /\ QuizIdle
    /\ LessonIdle

NextLesson ==
    \/ PlayerLoadOk
    \/ LessonLoadFail
    \/ Reveal
    \/ ListenChoose
    \/ DictationType
    \/ TaskAdd
    \/ TaskRemoveAt
    \/ Continue
    \/ KeyNext
    \/ Previous
    \/ KeyPrevious
    \/ ProgressSettled

SpecLesson == InitLesson /\ [][NextLesson]_vars

(***************************************************************************)
(* Claims about the lesson player                                          *)
(***************************************************************************)

\* The completion predicate of the current page as the specification words it.
PagePredicate ==
    LET p == page[1]
    IN  /\ p.kind = "teach" => p.id \in revealedTeach
        /\ p.kind = "listen" => listenAnswers[p.id] \in {<<i>> : i \in ListenOptions}
        /\ p.kind = "dictation" => Trim(dictationAnswers[p.id]) # <<>>
        /\ p.kind = "build" =>
              (p.id \in DOMAIN buildAnswers /\ Len(buildAnswers[p.id]) >= 1)

\* C1: Next (the Continue button, the ArrowRight / Enter keys) changes the
\* current index only if the current page's predicate holds, and while a page
\* is shown the Continue control is disabled iff that predicate is false.
C1_NextGatedByPredicate ==
    /\ [][((Continue \/ KeyNext) /\ player'.current # player.current)
            => (page # <<>> /\ PagePredicate)]_vars
    /\ [](PlayerShown => (ContinueDisabled <=> ~PagePredicate))

\* Next has just moved the pointer off a dictation page whose answer is not blank.
C1_Witness ==
    /\ op \in {"next", "keyNext"}
    /\ player.current = 1
    /\ pages[1].kind = "dictation"
    /\ Trim(dictationAnswers[pages[1].id]) # <<>>
    /\ PlayerShown

\* C10: Previous is never disabled on a page after the first, each Previous
\* moves the pointer down by one but not below 0, and the pointer stays
\* within 0 .. total-1, total being the number of pages (1 for no page).
C10_PreviousClamped ==
    /\ [][(Previous \/ KeyPrevious) =>
            /\ player.current > 0 => player'.current = player.current - 1
            /\ player.current = 0 => player'.current = 0]_vars
    /\ [](PlayerShown /\ player.current > 0 => ~PreviousDisabled)
    /\ [](/\ player.current >= 0
          /\ player.current <= pagesTotal - 1
          /\ pages # <<>> => player.current <= Len(pages) - 1)

\* Previous has brought the pointer back to the first page, whose predicate
\* does not hold, and ArrowLeft was then pressed on it.
C10_Witness ==
    /\ op = "keyPrevious"
    /\ player.current = 0
    /\ sent # <<>>
    /\ Len(pages) >= 2
    /\ PlayerShown
    /\ ~canProceedPage

Navigates == Continue \/ KeyNext \/ Previous \/ KeyPrevious

answerVars == <<revealedTeach, listenAnswers, dictationAnswers, buildAnswers>>

\* C11: Next and Previous (buttons and keys) leave every recorded answer as
\* it was: the revealed flags, the listen choices, the dictation texts and
\* the build token lists.
C11_NavigationKeepsAnswers ==
    [][Navigates => UNCHANGED answerVars]_vars

\* Previous has brought the player back to a build page that was answered
\* before Next left it, and the token list is still there.
C11_Witness ==
    /\ op = "previous"
    /\ player.current = 0
    /\ Len(pages) >= 2
    /\ pages[1].kind = "build"
    /\ pages[1].id \in DOMAIN buildAnswers
    /\ buildAnswers[pages[1].id] # <<>>
    /\ sent # <<>>

\* The step is an edit, by the user, of the answer of the page with this id.
EditOf(id) ==
    /\ PlayerShown
    /\ page[1].id = id
    /\ DictationType \/ TaskAdd \/ TaskRemoveAt

\* C12: a revealed teach page stays revealed and a chosen listen option never
\* reverts to none; a non-blank dictation text or a non-empty token list
\* becomes blank or empty again only by an edit of that very page.
C12_PredicateMonotonic ==
    [][/\ revealedTeach \subseteq revealedTeach'
       /\ \A id \in DOMAIN listenAnswers :
             listenAnswers[id] # <<>> =>
                 (id \in DOMAIN listenAnswers' /\ listenAnswers'[id] # <<>>)
       /\ \A id \in DOMAIN dictationAnswers :
             (/\ Trim(dictationAnswers[id]) # <<>>
              /\ (id \notin DOMAIN dictationAnswers' \/ Trim(dictationAnswers'[id]) = <<>>))
                 => EditOf(id)
       /\ \A id \in DOMAIN buildAnswers :
             (/\ buildAnswers[id] # <<>>
              /\ (id \notin DOMAIN buildAnswers' \/ buildAnswers'[id] = <<>>))
                 => EditOf(id)]_vars

\* A teach page was revealed and left, and on the next page the user has
\* emptied a token list that held a token.
C12_Witness ==
    /\ op = "answer"
    /\ player.current = 1
    /\ Len(pages) >= 2
    /\ pages[1].kind = "teach"
    /\ pages[1].id \in revealedTeach
    /\ pages[2].kind = "build"
    /\ pages[2].id \in DOMAIN buildAnswers
    /\ buildAnswers[pages[2].id] = <<>>

\* Next has moved the pointer to another page.
Crosses == (Continue \/ KeyNext) /\ player'.current # player.current

\* Exactly one update, with the percent of the page entered, was posted.
SendsPercentOfNewPage ==
    sent' = Append(sent, RoundPercent(player'.current + 1, Len(pages)))

\* C13: each Next that crosses into page n posts exactly one progress update
\* with percent round(100 * (n + 1) / total), Previous posts none, and an
\* update is posted only by a step that crosses into another page.
C13_ProgressOnlyOnCrossing ==
    [][/\ Crosses => SendsPercentOfNewPage
       /\ (Previous \/ KeyPrevious) => sent' = sent
       /\ sent' # sent => Crosses]_vars

\* The part of C13 the lesson page does keep: one update with the stated
\* percent per crossing, none on Previous.
C13_CrossingPostsOneUpdate ==
    [][/\ Crosses => SendsPercentOfNewPage
       /\ (Previous \/ KeyPrevious) => sent' = sent]_vars

\* The response of a progress update is an error.
ProgressFails == ProgressSettled /\ op' = "progressFailed"

\* C14: a failed progress update leaves the error string empty, leaves the
\* current index, the pages and the answers as they were, sets the updating
\* flag to false and posts no further update.
C14_ProgressFailureNonFatal ==
    [][ProgressFails =>
          /\ player'.error = ""
          /\ player'.current = player.current
          /\ UNCHANGED <<pages, lesson, answerVars>>
          /\ player'.updating = FALSE
          /\ sent' = sent]_vars

\* The update posted when Next entered the second page has failed; the page
\* is still shown on that page.
C14_Witness ==
    /\ op = "progressFailed"
    /\ player.current = 1
    /\ Len(sent) = 1
    /\ pending = 0
    /\ ~player.updating
    /\ PlayerShown

(***************************************************************************)
(* SpecLessonLoad: the load effect of the lesson page while the session    *)
(* changes under it.  mount.impl = "page.tsx" is lessons/[id]/page.tsx     *)
(* (an effect without cleanup), "part_002" is the page whose effect keeps  *)
(* an `alive` flag that its cleanup clears.  Each request remembers the    *)
(* token it was sent with; responses arrive in any order.                  *)
(***************************************************************************)
MaxLoads == 2

\* The lesson details a request may be answered with.
LoadLessons == Lessons(1, {1})

\* The state of the page that setState calls write.
pageState == <<lesson, pages, player, answerVars>>

\* The effect's cleanup: only part_002 has one (alive = false).
Cleanup(ls) ==
    IF mount.impl = "part_002" THEN {[r EXCEPT !.alive = FALSE] : r \in ls} ELSE ls

\* The effect body for the session state s: return early without a token
\* (part_002: also when not authenticated), else send the request.
Effect(s) ==
    IF Truthy(s.accessToken) /\ (mount.impl = "part_002" => s.isAuthenticated)
    THEN {[n |-> mount.issued + 1, token |-> s.accessToken, alive |-> TRUE]}
    ELSE {}

LoadStep(name) ==
    /\ op' = name
    /\ UNCHANGED <<route, protectedImpl, requests, prev, quizVars, sent, pending, apiVars,
                   dashboard, regVars, builder>>

\* The store gets another access token while the page is mounted: the effect
\* is cleaned up and runs again.
TokenReplaced ==
    /\ mount.mounted
    /\ mount.issued < MaxLoads
    /\ \E t \in AccessTokens \ {auth.accessToken} :
         LET s == loginWithTokens(auth, t, "ref1", "alice")
         IN  /\ Set(s)
             /\ loads' = Cleanup(loads) \cup Effect(s)
             /\ mount' = [mount EXCEPT !.issued = mount.issued + Cardinality(Effect(s))]
    /\ UNCHANGED pageState
    /\ LoadStep("tokenReplaced")

\* logout() while the page is mounted: cleanup, and the effect returns early.
TokenCleared ==
    /\ mount.mounted
    /\ auth.accessToken # Null
    /\ Set(logout(auth))
    /\ loads' = Cleanup(loads) \cup Effect(logout(auth))
    /\ UNCHANGED <<mount, pageState>>
    /\ LoadStep("tokenCleared")

\* The page is unmounted: cleanup; later setState calls have no effect.
Unmount ==
    /\ mount.mounted
    /\ loads' = Cleanup(loads)
    /\ mount' = [mount EXCEPT !.mounted = FALSE]
    /\ UNCHANGED <<auth, storage, pageState>>
    /\ LoadStep("unmount")

\* A request is answered with a lesson: the try block, then finally.
LoadResponseOk ==
    /\ \E r \in loads :
       \E data \in LoadLessons :
         /\ loads' = loads \ {r}
         /\ CASE ~mount.mounted -> UNCHANGED pageState
              [] mount.mounted /\ mount.impl = "page.tsx" ->
                   /\ lesson' = <<data>>
                   /\ pages' = Flatten(data)
                   /\ IF HasContent(data)
                      THEN /\ listenAnswers' = listenInit(Flatten(data))
                           /\ dictationAnswers' = dictInit(Flatten(data))
                      ELSE UNCHANGED <<listenAnswers, dictationAnswers>>
                   /\ player' = [player EXCEPT !.isLoading = FALSE]
                   /\ UNCHANGED <<revealedTeach, buildAnswers>>
              [] mount.mounted /\ mount.impl = "part_002" ->
                   IF r.alive
                   THEN /\ lesson' = <<data>>
                        /\ player' = [player EXCEPT !.isLoading = FALSE]
                        /\ UNCHANGED <<pages, answerVars>>
                   ELSE UNCHANGED pageState
    /\ UNCHANGED <<auth, storage, mount>>
    /\ LoadStep("loadOk")

\* A request fails: the catch block, then finally.
LoadResponseFail ==
    /\ \E r \in loads :
         /\ loads' = loads \ {r}
         /\ CASE ~mount.mounted -> UNCHANGED pageState
              [] mount.mounted /\ mount.impl = "page.tsx" ->
                   /\ player' = [player EXCEPT !.error = "Failed to load lesson",
                                               !.isLoading = FALSE]
                   /\ UNCHANGED <<lesson, pages, answerVars>>
              [] mount.mounted /\ mount.impl = "part_002" ->
                   /\ player' = [player EXCEPT !.error = "Failed to load lesson",
                                               !.isLoading = IF r.alive THEN FALSE ELSE @]
                   /\ UNCHANGED <<lesson, pages, answerVars>>
    /\ UNCHANGED <<auth, storage, mount>>
    /\ LoadStep("loadFailed")

\* The page has mounted in an open session and its effect has sent request 1.
InitLessonLoad ==
    /\ SessionOpen
    /\ ApiIdle
    /\ DashboardIdle
    /\ RegisterIdle
    /\ BuilderIdle
    /\ QuizIdle
    /\ LessonIdle
    /\ \E impl \in {"page.tsx", "part_002"} :
         /\ mount = [mounted |-> TRUE, impl |-> impl, issued |-> 1]
         /\ loads = {[n |-> 1, token |-> auth.accessToken, alive |-> TRUE]}

NextLessonLoad ==
    \/ TokenReplaced
    \/ TokenCleared
    \/ Unmount
    \/ LoadResponseOk
    \/ LoadResponseFail

SpecLessonLoad == InitLessonLoad /\ [][NextLessonLoad]_vars

\* Request r is superseded: the page is gone or the session's token is no
\* longer the one r was sent with.
Superseded(r) == ~mount.mounted \/ r.token # auth.accessToken

\* The step is the arrival of r's response.
Answers(r) == (LoadResponseOk \/ LoadResponseFail) /\ r \in loads /\ loads' = loads \ {r}

\* C15: the response of a superseded lesson request - the page unmounted or
\* the token changed since it was sent - never changes the page state, in
\* whatever order the responses arrive.
C15_SupersededResponsesDiscarded ==
    [][\A r \in loads : (Answers(r) /\ Superseded(r)) => UNCHANGED pageState]_vars

(***************************************************************************)
(* SpecApi: api() and the error helpers of the four copies of the client.  *)
(* A text is a sequence of atoms (characters or indivisible pieces); a     *)
(* JSON value is a record [t, text, items, fields]:                        *)
(*   t = "string" | "number" | "null"   text  = its characters             *)
(*   t = "array"                        items = the texts of its strings   *)
(*   t = "object"                       fields = <<key, value>> pairs      *)
(***************************************************************************)
SnippetLength == 140

JString(text) == [t |-> "string", text |-> text,  items |-> <<>>,  fields |-> <<>>]
JNumber(text) == [t |-> "number", text |-> text,  items |-> <<>>,  fields |-> <<>>]
JNull         == [t |-> "null",   text |-> <<>>,  items |-> <<>>,  fields |-> <<>>]
JArray(items) == [t |-> "array",  text |-> <<>>,  items |-> items, fields |-> <<>>]
JObject(fs)   == [t |-> "object", text |-> <<>>,  items |-> <<>>,  fields |-> fs]

\* items.join(sep)
RECURSIVE Join(_, _)
Join(items, sep) ==
    IF items = <<>> THEN <<>>
    ELSE IF Len(items) = 1 THEN Head(items)
    ELSE Head(items) \o sep \o Join(Tail(items), sep)

Quoted(text) == <<"\"">> \o text \o <<"\"">>

\* JSON.stringify of a value that is not an object.
ScalarText(v) ==
    CASE v.t = "string" -> Quoted(v.text)
      [] v.t = "number" -> v.text
      [] v.t = "null"   -> <<"null">>
      [] v.t = "array"  ->
            <<"[">> \o Join([i \in DOMAIN v.items |-> Quoted(v.items[i])], <<",">>) \o <<"]">>
      [] OTHER -> <<>>

\* JSON.stringify
JsonText(v) ==
    IF v.t = "object"
    THEN <<"{">>
         \o Join([i \in DOMAIN v.fields |->
                    Quoted(<<v.fields[i][1]>>) \o <<":">> \o ScalarText(v.fields[i][2])],
                 <<",">>)
         \o <<"}">>
    ELSE ScalarText(v)

\* The values error bodies are made of.
ErrorLists == {JArray(<<<<"bad">>>>), JArray(<<<<"too short">>, <<"too common">>>>)}

FieldChoices ==
    [detail           : {<<>>, <<JString(<<"Not found.">>)>>},
     non_field_errors : {<<>>} \cup {<<l>> : l \in ErrorLists},
     password         : {<<>>, <<JArray(<<<<"too short">>, <<"too common">>>>)>>},
     username         : {<<>>, <<JArray(<<<<"taken">>>>)>>},
     email            : {<<>>, <<JArray(<<<<"invalid">>>>)>>}]

\* The fields present in a choice, in the order the server writes them.
FieldsOf(c) ==
    (IF c.email = <<>> THEN <<>> ELSE <<<<"email", c.email[1]>>>>)
    \o (IF c.username = <<>> THEN <<>> ELSE <<<<"username", c.username[1]>>>>)
    \o (IF c.password = <<>> THEN <<>> ELSE <<<<"password", c.password[1]>>>>)
    \o (IF c.non_field_errors = <<>> THEN <<>>
        ELSE <<<<"non_field_errors", c.non_field_errors[1]>>>>)
    \o (IF c.detail = <<>> THEN <<>> ELSE <<<<"detail", c.detail[1]>>>>)

JsonValues ==
    {JObject(FieldsOf(c)) : c \in FieldChoices}
    \cup {JString(<<"Server Error">>), JNumber(<<"5">>), JNull}

LongText == [i \in 1..(SnippetLength + 2) |-> "x"]

\* Body texts that are not JSON: an HTML page, a long page.
NonJsonTexts == {<<"<", "html", ">">>, LongText}

RawBodies == {JsonText(v) : v \in JsonValues} \cup NonJsonTexts \cup {<<>>}

\* JSON.parse: <<the value>>, or <<>> when it throws SyntaxError.
JsonParse(raw) ==
    IF \E v \in JsonValues : JsonText(v) = raw
    THEN <<CHOOSE v \in JsonValues : JsonText(v) = raw>>
    ELSE <<>>

Slice_whole(text, n) == text

\* text.slice(0, n)
Slice(text, n) == SubSeq(text, 1, IF Len(text) < n THEN Len(text) ELSE n)

\* `${res.status} ${res.statusText}`
StatusLine(res) == <<ToString(res.status), " ", res.statusText>>

\* The separator each file writes between the status line and the message:
\* an em dash (U+2014), which part_005 holds mis-encoded as the three
\* characters U+00E2 U+20AC U+201D.
Separator(impl) == IF impl = "part_005" THEN <<" U+00E2 U+20AC U+201D ">> ELSE <<" U+2014 ">>

\* What the caller of api() gets.
Returned(v) ==
    [thrown |-> FALSE, type |-> "", message |-> <<>>, status |-> <<>>, data |-> <<>>,
     value |-> <<v>>]
Thrown(type, message, status, data) ==
    [thrown |-> TRUE, type |-> type, message |-> message, status |-> status, data |-> data,
     value |-> <<>>]

\* obj[key]: <<>> when the object has no such field.
Field(obj, key) ==
    LET at == {i \in DOMAIN obj.fields : obj.fields[i][1] = key}
    IN  IF at = {} THEN <<>> ELSE <<obj.fields[CHOOSE i \in at : TRUE][2]>>

\* asStringArray: <<the strings>> for an array of strings, else <<>> (undefined).
asStringArray(v) == IF v # <<>> /\ v[1].t = "array" THEN <<v[1].items>> ELSE <<>>

\* raw ? JSON.parse(raw) : {}   (<<>> when JSON.parse throws)
ParsedOrEmptyObject(raw) == IF raw = <<>> THEN <<JObject(<<>>)>> ELSE JsonParse(raw)

\* the separator and raw.slice(0, 140), or nothing for an empty body.
RawSnippet(impl, raw) ==
    IF raw = <<>> THEN <<>> ELSE Separator(impl) \o Slice(raw, SnippetLength)

\* throwErrorFromResponse of auth-store.ts.
throwErrorFromResponse(res) ==
    LET data == ParsedOrEmptyObject(res.raw)
        msg  ==
            IF data = <<>> THEN <<>>
            ELSE IF data[1].t = "string" THEN data[1].text
            ELSE IF data[1].t = "object" THEN
                LET detail == Field(data[1], "detail")
                    nfe    == asStringArray(Field(data[1], "non_field_errors"))
                    pw     == asStringArray(Field(data[1], "password"))
                    un     == asStringArray(Field(data[1], "username"))
                IN  IF detail # <<>> /\ detail[1].t = "string" THEN detail[1].text
                    ELSE IF nfe # <<>> THEN Join(nfe[1], <<" ">>)
                    ELSE IF pw # <<>> THEN Join(pw[1], <<" ">>)
                    ELSE IF un # <<>> THEN Join(un[1], <<" ">>)
                    ELSE IF data[1].fields # <<>> THEN JsonText(data[1])
                    ELSE <<>>
            ELSE <<>>
        final == StatusLine(res)
                 \o (IF msg # <<>> THEN Separator("auth-store.ts") \o msg
                     ELSE RawSnippet("auth-store.ts", res.raw))
    IN  Thrown("ApiError", final, <<res.status>>, data)

\* String(v) of a field value, or the strings of an array joined.
FieldText(v, sep) == IF v.t = "array" THEN Join(v.items, sep) ELSE v.text

\* The message the try block of api.ts's throwErrorFromResponse builds:
\* <<>> when the block throws before reaching its own throw statement
\* (JSON.parse fails, or data is null and data.detail is read).
TriedMessage(res) ==
    LET data == ParsedOrEmptyObject(res.raw)
    IN  IF data = <<>> \/ data[1].t = "null" THEN <<>>
        ELSE LET d == data[1]
                 detail == IF d.t = "object" THEN Field(d, "detail") ELSE <<>>
                 nfe    == IF d.t = "object" THEN Field(d, "non_field_errors") ELSE <<>>
                 pw     == IF d.t = "object" THEN Field(d, "password") ELSE <<>>
                 un     == IF d.t = "object" THEN Field(d, "username") ELSE <<>>
                 msg    == IF d.t = "string" THEN d.text
                           ELSE IF detail # <<>> THEN FieldText(detail[1], <<",">>)
                           ELSE IF nfe # <<>> THEN FieldText(nfe[1], <<" ">>)
                           ELSE IF pw # <<>> THEN FieldText(pw[1], <<" ">>)
                           ELSE IF un # <<>> THEN FieldText(un[1], <<" ">>)
                           ELSE IF d.t = "object" /\ d.fields # <<>> THEN JsonText(d)
                           ELSE <<>>
             IN  <<StatusLine(res) \o (IF msg # <<>> THEN Separator("api.ts") \o msg ELSE <<>>)>>

\* throwErrorFromResponse of api.ts: the Error thrown at the end of the try
\* block is thrown inside that block, so `catch {}` catches it like any other
\* exception and throws the raw-text error in its place.
throwErrorFromResponse_apiTs(res) ==
    LET tried == TriedMessage(res)
        caughtByOwnCatch == TRUE
    IN  IF caughtByOwnCatch
        THEN Thrown("Error", StatusLine(res) \o RawSnippet("api.ts", res.raw), <<>>, <<>>)
        ELSE Thrown("Error", tried[1], <<>>, <<>>)

\* const txt = await res.text(); return txt ? JSON.parse(txt) : null
ReturnBody(res) ==
    IF res.raw = <<>> THEN Returned(JNull)
    ELSE IF JsonParse(res.raw) = <<>> THEN Thrown("SyntaxError", <<"Unexpected token">>, <<>>, <<>>)
    ELSE Returned(JsonParse(res.raw)[1])

\* api() of auth-store.ts
api(res) == IF ~res.ok THEN throwErrorFromResponse(res) ELSE ReturnBody(res)

\* api() of api.ts
api_apiTs(res) == IF ~res.ok THEN throwErrorFromResponse_apiTs(res) ELSE ReturnBody(res)

\* api() of part_004: response.json() with a default body, then error.detail.
api_part004(res) ==
    LET parsed == JsonParse(res.raw)
    IN  IF ~res.ok
        THEN LET error == IF parsed = <<>>
                          THEN JObject(<<<<"detail", JString(<<"Request failed">>)>>>>)
                          ELSE parsed[1]
                 detail == IF error.t = "object" THEN Field(error, "detail") ELSE <<>>
             IN  IF error.t = "null"
                 THEN Thrown("TypeError", <<"Cannot read properties of null">>, <<>>, <<>>)
                 ELSE IF detail # <<>>
                 THEN Thrown("Error", FieldText(detail[1], <<",">>), <<>>, <<>>)
                 ELSE Thrown("Error", <<"HTTP ", ToString(res.status)>>, <<>>, <<>>)
        ELSE IF parsed = <<>>
             THEN Thrown("SyntaxError", <<"Unexpected token">>, <<>>, <<>>)
             ELSE Returned(parsed[1])

\* parseResponse of part_005 on a non-OK response: <<>> when it returns the
\* parsed body, else <<the Error it throws>>.
parseResponse(res) ==
    IF JsonParse(res.raw) # <<>> THEN <<>>
    ELSE <<Thrown("Error", StatusLine(res) \o RawSnippet("part_005", res.raw), <<>>, <<>>)>>

api_part005_secondReadSucceeds(res) ==
    IF ~res.ok /\ JsonParse(res.raw) = <<>>
    THEN Thrown("Error", StatusLine(res) \o RawSnippet("part_005", res.raw), <<>>, <<>>)
    ELSE ReturnBody(res)

\* api() of part_005: when parseResponse returns, res.text() is called on the
\* body it has already consumed and rejects with a TypeError.
api_part005(res) ==
    IF ~res.ok
    THEN IF parseResponse(res) # <<>> THEN parseResponse(res)[1]
         ELSE Thrown("TypeError", <<"body stream already read">>, <<>>, <<>>)
    ELSE ReturnBody(res)

ApiImpls == {"auth-store.ts", "api.ts", "part_004", "part_005"}

StatusTexts == [ok : {FALSE}, status : {400}, statusText : {"Bad Request"}]
               \cup [ok : {FALSE}, status : {500}, statusText : {"Internal Server Error"}]
               \cup [ok : {TRUE}, status : {200}, statusText : {"OK"}]

Responses ==
    {[ok |-> h.ok, status |-> h.status, statusText |-> h.statusText, raw |-> raw] :
        h \in StatusTexts, raw \in RawBodies}

ApiStep(result) ==
    /\ apiResult = <<>>
    /\ apiResult' = <<result>>
    /\ op' = "api"
    /\ UNCHANGED <<authVars, quizVars, lessonVars, loadVars, apiImpl, response,
                   dashboard, regVars, builder>>

ApiAuthStore == apiImpl = "auth-store.ts" /\ ApiStep(api(response))
ApiTs        == apiImpl = "api.ts" /\ ApiStep(api_apiTs(response))
ApiPart004   == apiImpl = "part_004" /\ ApiStep(api_part004(response))
ApiPart005   == apiImpl = "part_005" /\ ApiStep(api_part005(response))

InitApi ==
    /\ SessionOpen
    /\ BuilderIdle
    /\ QuizIdle
    /\ LessonIdle
    /\ LoadsIdle
    /\ DashboardIdle
    /\ RegisterIdle
    /\ apiImpl \in ApiImpls
    /\ response \in Responses
    /\ apiResult = <<>>

NextApi ==
    \/ ApiAuthStore
    \/ ApiTs
    \/ ApiPart004
    \/ ApiPart005

SpecApi == InitApi /\ [][NextApi]_vars

\* The call has settled on a non-OK response.
NonOkSettled == apiResult # <<>> /\ ~response.ok

\* C16: every non-OK response handled by the API client (auth-store.ts,
\* api.ts, part_004) surfaces as an ApiError that carries the HTTP status, the
\* parsed response body and a message.
C16_NonOkSurfacesAsApiError ==
    (NonOkSettled /\ apiImpl \in {"auth-store.ts", "api.ts", "part_004"}) =>
        /\ apiResult[1].thrown
        /\ apiResult[1].type = "ApiError"
        /\ apiResult[1].status = <<response.status>>
        /\ JsonParse(response.raw) # <<>> => apiResult[1].data = JsonParse(response.raw)
        /\ apiResult[1].message # <<>>

\* What C16 states does hold of the client in auth-store.ts alone.
C16_AuthStoreThrowsApiError ==
    (NonOkSettled /\ apiImpl = "auth-store.ts") =>
        /\ apiResult[1].thrown
        /\ apiResult[1].type = "ApiError"
        /\ apiResult[1].status = <<response.status>>
        /\ JsonParse(response.raw) # <<>> => apiResult[1].data = JsonParse(response.raw)
        /\ apiResult[1].message # <<>>

\* The body of the response is a JSON object.
ObjectBody == JsonParse(response.raw) # <<>> /\ JsonParse(response.raw)[1].t = "object"

\* The message chosen by the stated precedence for a JSON object body.
StatedMsg(obj) ==
    LET has(key) == \E i \in DOMAIN obj.fields : obj.fields[i][1] = key
        at(key)  == obj.fields[CHOOSE i \in DOMAIN obj.fields : obj.fields[i][1] = key][2]
    IN  IF has("detail") THEN at("detail").text
        ELSE IF has("non_field_errors") THEN Join(at("non_field_errors").items, <<" ">>)
        ELSE IF has("password") THEN Join(at("password").items, <<" ">>)
        ELSE IF has("username") THEN Join(at("username").items, <<" ">>)
        ELSE JsonText(obj)

\* C17: for a non-OK response with a JSON object body the message is the
\* status line, the dash and the message chosen by precedence (detail, else
\* non_field_errors joined by spaces, else password errors, else username
\* errors, else the JSON text of the body), in auth-store.ts and in api.ts.
C17_ObjectBodyMessageByPrecedence ==
    (NonOkSettled /\ ObjectBody /\ apiImpl \in {"auth-store.ts", "api.ts"}) =>
        /\ apiResult[1].thrown
        /\ apiResult[1].message =
               StatusLine(response) \o <<" U+2014 ">> \o StatedMsg(JsonParse(response.raw)[1])

\* What C17 states does hold of the client in auth-store.ts alone.
C17_AuthStoreMessageByPrecedence ==
    (NonOkSettled /\ ObjectBody /\ apiImpl = "auth-store.ts") =>
        /\ apiResult[1].thrown
        /\ apiResult[1].message =
               StatusLine(response) \o <<" U+2014 ">> \o StatedMsg(JsonParse(response.raw)[1])

\* C18: for a non-OK response whose body is not valid JSON an error is still
\* thrown; its message is the status line alone when the body is empty, and
\* otherwise the status line, one separator and the first 140 characters of
\* the raw body (the whole body when it is shorter), in auth-store.ts, api.ts
\* and part_005.
C18_NonJsonBodyMessageIsTruncatedRaw ==
    (/\ NonOkSettled
     /\ JsonParse(response.raw) = <<>>
     /\ apiImpl \in {"auth-store.ts", "api.ts", "part_005"}) =>
        LET message == apiResult[1].message
            line    == <<ToString(response.status), " ", response.statusText>>
            kept    == IF Len(response.raw) < 140 THEN Len(response.raw) ELSE 140
        IN  /\ apiResult[1].thrown
            /\ IF response.raw = <<>>
               THEN message = line
               ELSE /\ Len(message) = Len(line) + 1 + kept
                    /\ SubSeq(message, 1, Len(line)) = line
                    /\ SubSeq(message, Len(line) + 2, Len(message))
                           = SubSeq(response.raw, 1, kept)

\* A non-OK response with a non-JSON body longer than 140 characters has
\* been turned into an error.
C18_Witness ==
    /\ NonOkSettled
    /\ apiImpl = "part_005"
    /\ JsonParse(response.raw) = <<>>
    /\ Len(response.raw) > 140
    /\ apiResult[1].thrown

(***************************************************************************)
(* The dashboard page (part_010): the load effect.                         *)
(***************************************************************************)
MaxCategories == 2

\* /me/summary/
Summaries == {[level |-> 1, xp |-> 0], [level |-> 2, xp |-> 120]}

\* completion_percentage of a category: <<>> when the field is missing.
Completions == {<<>>, <<59>>, <<60>>, <<100>>}

\* /categories/
CategoryLists ==
    UNION {[1..n -> [completion_percentage : Completions]] : n \in 0..MaxCategories}

\* /categories/<slug>/lessons/: a rejected request, or the word counts of the
\* lessons listed.
LessonListResponses ==
    {[ok |-> FALSE, words |-> <<>>]}
    \cup {[ok |-> TRUE, words |-> w] : w \in {<<>>, <<30>>, <<30, 6>>}}

\* The inner try/catch: a failed lesson list counts as an empty one.
LessonList(resp) == IF resp.ok THEN resp.words ELSE <<>>

\* Math.round(x / y) for x, y > 0
RoundDiv(x, y) == (2 * x + y) \div (2 * y)

Unlocked_strictlyAbove(categories, idx) ==
    \/ idx = 1
    \/ (IF categories[idx - 1].completion_percentage = <<>> THEN 0
        ELSE categories[idx - 1].completion_percentage[1]) > 60

\* isUnlocked of the category at (one-based) position idx
Unlocked(categories, idx) ==
    LET prevPct == IF idx > 1
                   THEN (IF categories[idx - 1].completion_percentage = <<>> THEN 0
                         ELSE categories[idx - 1].completion_percentage[1])
                   ELSE 100
    IN  idx = 1 \/ prevPct >= 60

\* The `enriched` list the effect stores with setCats.
Enriched(categories, lists) ==
    [idx \in DOMAIN categories |->
        LET lessons    == LessonList(lists[idx])
            wordsCount == Sum(lessons)
            rounded    == RoundDiv(5 * 12 + wordsCount, 12)
        IN  [completion_percentage |-> categories[idx].completion_percentage,
             lessonsCount |-> Len(lessons),
             wordsCount   |-> wordsCount,
             minutes      |-> IF rounded < 5 THEN 5 ELSE rounded,
             isUnlocked   |-> Unlocked(categories, idx)]]

DashboardStep(name) ==
    /\ op' = name
    /\ UNCHANGED <<authVars, quizVars, lessonVars, loadVars, apiVars, regVars, builder>>

\* Both first requests succeed; the lesson lists are fetched per category,
\* each on a best-effort basis.
DashboardLoadOk ==
    /\ dashboard.loading
    /\ dashboard.issued > 0
    /\ \E summary \in Summaries, categories \in CategoryLists :
         \E lists \in [DOMAIN categories -> LessonListResponses] :
            dashboard' = [loading |-> FALSE,
                          summary |-> <<summary>>,
                          cats    |-> Enriched(categories, lists),
                          issued  |-> dashboard.issued + Len(categories)]
    /\ DashboardStep("dashboardLoaded")

\* Promise.all rejects (either first request failed): the catch logs to the
\* console, finally clears loading. Nothing else is set.
DashboardLoadFail ==
    /\ dashboard.loading
    /\ dashboard.issued > 0
    /\ dashboard' = [dashboard EXCEPT !.loading = FALSE]
    /\ DashboardStep("dashboardFailed")

\* The page has mounted in an open session: the effect has sent the summary
\* and the categories request.
InitDashboard ==
    /\ SessionOpen
    /\ BuilderIdle
    /\ QuizIdle
    /\ LessonIdle
    /\ LoadsIdle
    /\ ApiIdle
    /\ RegisterIdle
    /\ dashboard = [InitialDashboard EXCEPT !.issued = 2]

NextDashboard ==
    \/ DashboardLoadOk
    \/ DashboardLoadFail

SpecDashboard == InitDashboard /\ [][NextDashboard]_vars

\* C19: on every page (lesson page, random quiz page, dashboard), once
\* loading the page's data has failed the page holds a non-empty local error
\* string, its loading flag is false, and no request was issued beyond those
\* of the load (no retry).
C19_LoadFailureSetsErrorAndStopsLoading ==
    /\ op = "lessonFailed" => (player.error # "" /\ ~player.isLoading)
    /\ op = "loadFailed" => (quiz.error # "" /\ ~quiz.isLoading)
    /\ op = "dashboardFailed" =>
          /\ ~dashboard.loading
          /\ dashboard.issued = 2
          /\ "error" \in DOMAIN dashboard
          /\ dashboard.error # ""

\* What C19 states does hold of the lesson page and of the quiz pages.
C19_LessonAndQuizPagesSetError ==
    /\ op = "lessonFailed" => (player.error # "" /\ ~player.isLoading /\ lesson = <<>>)
    /\ op = "loadFailed" => (quiz.error # "" /\ ~quiz.isLoading /\ inFlight = <<>>)

\* What C19 states does hold of the dashboard: loading ends, nothing is retried.
C19_DashboardStopsLoading ==
    op = "dashboardFailed" => (~dashboard.loading /\ dashboard.issued = 2)

(***************************************************************************)
(* The register page (src/src/app/register/page.tsx): onSubmit.            *)
(***************************************************************************)
MaxSubmits == 3

\* Passwords typed into the form; pwdChecks.requiredPass of each.
Passwords == {"Secret#123", "secret"}
requiredPass(password) == password = "Secret#123"

\* The messages of the errors api() and login() reject with.
Messages ==
    {"400 Bad Request: A user with that username already exists.",
     "400 Bad Request: Enter a valid email address.",
     "400 Bad Request: The password is too similar to the username.",
     "500 Internal Server Error",
     "Failed to fetch"}

\* /username/i.test(message), /email/i.test(message), /password/i.test(message)
Mentions(message, field) ==
    <<message, field>> \in
        {<<"400 Bad Request: A user with that username already exists.", "username">>,
         <<"400 Bad Request: Enter a valid email address.", "email">>,
         <<"400 Bad Request: The password is too similar to the username.", "password">>,
         <<"400 Bad Request: The password is too similar to the username.", "username">>}

NoFieldErrors == [username |-> <<>>, email |-> <<>>, password |-> <<>>]

\* The catch block: the message goes to every field it mentions, or to the
\* form as a whole when it mentions none; finally clears loading.
Caught(message) ==
    LET fe == [f \in {"username", "email", "password"} |->
                  IF Mentions(message, f) THEN <<message>> ELSE <<>>]
    IN  [step          |-> "form",
         loading       |-> FALSE,
         nonFieldError |-> IF fe = NoFieldErrors THEN message ELSE reg.nonFieldError,
         fieldErrors   |-> IF fe = NoFieldErrors THEN reg.fieldErrors ELSE fe]

Continues_always(fulfilled) == TRUE

\* `await p`: the try block goes on to its next statement only when the
\* awaited promise is fulfilled; a rejection jumps to catch.
Continues(fulfilled) == fulfilled

RegisterStep(name) ==
    /\ op' = name
    /\ prev' = [auth |-> auth, storage |-> storage, requests |-> requests]
    /\ UNCHANGED <<protectedImpl, quizVars, lessonVars, loadVars, apiVars, dashboard, builder>>

Submits == Len(SelectSeq(regLog, LAMBDA e : e = "submit"))

\* The submit button is enabled (not loading, password rules met) and the
\* form is submitted: the errors are cleared, then either the confirmation
\* differs, or the register request is sent.
OnSubmit ==
    /\ reg.step = "form"
    /\ ~reg.loading
    /\ Submits < MaxSubmits
    /\ \E password \in Passwords, confirm \in Passwords :
         /\ requiredPass(password)
         /\ IF password # confirm
            THEN /\ reg' = [reg EXCEPT !.nonFieldError = "",
                                       !.fieldErrors = [NoFieldErrors EXCEPT
                                            !.password = <<"Passwords do not match.">>]]
                 /\ regLog' = Append(regLog, "submit")
                 /\ UNCHANGED requests
            ELSE IF ~requiredPass(password)
            THEN /\ reg' = [reg EXCEPT !.nonFieldError = "",
                                       !.fieldErrors = [NoFieldErrors EXCEPT
                                            !.password = <<"Password must be at least 8 characters">>]]
                 /\ regLog' = Append(regLog, "submit")
                 /\ UNCHANGED requests
            ELSE /\ reg' = [step |-> "registering", loading |-> TRUE,
                            nonFieldError |-> "", fieldErrors |-> NoFieldErrors]
                 /\ regLog' = regLog \o <<"submit", "register">>
                 /\ requests' = requests + 1
    /\ UNCHANGED <<auth, storage, route>>
    /\ RegisterStep("onSubmit")

\* The register request has settled: on to login(), or to the catch block.
AfterRegister(fulfilled, message) ==
    /\ IF Continues(fulfilled)
       THEN /\ reg' = [reg EXCEPT !.step = "loggingIn"]
            /\ regLog' = regLog \o <<IF fulfilled THEN "registerOk" ELSE "registerFail",
                                     "login">>
            /\ requests' = requests + 1
       ELSE /\ reg' = Caught(message)
            /\ regLog' = Append(regLog, "registerFail")
            /\ UNCHANGED requests
    /\ UNCHANGED <<auth, storage, route>>

RegisterOk ==
    /\ reg.step = "registering"
    /\ AfterRegister(TRUE, "")
    /\ RegisterStep("registerOk")

RegisterFail ==
    /\ reg.step = "registering"
    /\ \E message \in Messages : AfterRegister(FALSE, message)
    /\ RegisterStep("registerFail")

\* login() has fulfilled with the tokens and the user: loginWithTokens, then
\* router.replace("/dashboard"); finally clears loading.
RegisterLoginOk ==
    /\ reg.step = "loggingIn"
    /\ \E a \in AccessTokens \ {""}, r \in RefreshTokens, u \in Users :
          Set(loginWithTokens(auth, a, r, u))
    /\ route' = "/dashboard"
    /\ reg' = [reg EXCEPT !.step = "left", !.loading = FALSE]
    /\ regLog' = regLog \o <<"loginOk", "loginWithTokens", "navigate">>
    /\ requests' = requests + 1
    /\ RegisterStep("registerLoginOk")

\* login() has rejected: the catch block, nothing else.
RegisterLoginFail ==
    /\ reg.step = "loggingIn"
    /\ \E message \in Messages : reg' = Caught(message)
    /\ regLog' = Append(regLog, "loginFail")
    /\ UNCHANGED <<auth, storage, route, requests>>
    /\ RegisterStep("registerLoginFail")

\* The register page is open in a hydrated store that holds no session.
InitRegister ==
    /\ auth = setHydrated(InitialAuth, TRUE)
    /\ storage = <<auth>>
    /\ route = "/register"
    /\ protectedImpl = "placeholder"
    /\ requests = 0
    /\ prev = [auth |-> InitialAuth, storage |-> <<>>, requests |-> 0]
    /\ op = "none"
    /\ BuilderIdle
    /\ QuizIdle
    /\ LessonIdle
    /\ LoadsIdle
    /\ ApiIdle
    /\ DashboardIdle
    /\ RegisterIdle

NextRegister ==
    \/ OnSubmit
    \/ RegisterOk
    \/ RegisterFail
    \/ RegisterLoginOk
    \/ RegisterLoginFail

SpecRegister == InitRegister /\ [][NextRegister]_vars

\* Event e occurs in the log.
Logged(e) == \E i \in DOMAIN regLog : regLog[i] = e

\* The step records the failure of the register or of the login request.
RequestFails ==
    /\ Len(regLog') > Len(regLog)
    /\ regLog'[Len(regLog')] \in {"registerFail", "loginFail"}

\* C20: during registration the login request is issued only right after the
\* register request has succeeded, and loginWithTokens is called only right
\* after the login request has succeeded; a step on which the register or the
\* login request fails leaves the session store (state and persisted entry)
\* and the route unchanged, and the store holds a session or the route is
\* /dashboard only once a login has succeeded.
C20_RegisterThenLogin ==
    /\ [](/\ \A i \in DOMAIN regLog :
                /\ regLog[i] = "login" => (i > 1 /\ regLog[i - 1] = "registerOk")
                /\ regLog[i] = "loginWithTokens" => (i > 1 /\ regLog[i - 1] = "loginOk")
          /\ (auth.isAuthenticated \/ auth.accessToken # Null \/ route = "/dashboard")
                => Logged("loginOk"))
    /\ [][RequestFails =>
            (auth' = auth /\ storage' = storage /\ route' = route
             /\ regLog'[Len(regLog')] # "login")]_vars

\* A registration whose register request failed, was submitted again, and
\* whose login then succeeded.
C20_Witness ==
    /\ Logged("registerFail")
    /\ Logged("loginWithTokens")
    /\ auth.isAuthenticated
    /\ route = "/dashboard"

\* A registration whose login request failed after a successful register.
C20_WitnessLoginFailed ==
    /\ Logged("registerOk")
    /\ regLog[Len(regLog)] = "loginFail"
    /\ ~auth.isAuthenticated

\* C21: api() (api.ts, part_005, auth-store.ts) never returns normally for a
\* non-OK response: whatever the body (empty, JSON or not JSON) the call ends
\* by throwing and the caller receives no value.
C21_NonOkNeverReturns ==
    (/\ apiResult # <<>>
     /\ ~response.ok
     /\ apiImpl \in {"api.ts", "part_005", "auth-store.ts"}) =>
        /\ apiResult[1].thrown
        /\ apiResult[1].value = <<>>

\* part_005 has handled a non-OK response whose body is valid JSON.
C21_Witness ==
    /\ apiResult # <<>>
    /\ ~response.ok
    /\ apiImpl = "part_005"
    /\ JsonParse(response.raw) # <<>>
    /\ apiResult[1].thrown

\* Every kind of body has been met on a non-OK response.
C21_WitnessEmptyBody ==
    /\ apiResult # <<>>
    /\ ~response.ok
    /\ apiImpl = "api.ts"
    /\ response.raw = <<>>
    /\ apiResult[1].thrown

\* The selection held for the question at position i does not fit it: its
\* type is not the question's qtype, or it is an mcq/tf selection holding null.
Unfit(i) ==
    LET sel == selections[i][1]
    IN  \/ sel.type # quizItems[i].qtype
        \/ sel.type = "mcq" /\ sel.index = <<>>
        \/ sel.type = "tf" /\ sel.value = <<>>

\* C22: buildSubmitPayload returns exactly one answer entry per question, in
\* question order, for every selection map; a question with no selection is
\* sent as {question_id, selected: {text: ""}}, and a selection that does not
\* fit the question is sent as a text entry too.
C22_OneEntryPerQuestion ==
    op = "buildLesson" =>
        LET answers == built[1].legacy.answers
        IN  /\ built[1].legacy.lesson_id \in LessonIds
            /\ Len(answers) = Len(quizItems)
            /\ \A i \in 1..Len(quizItems) :
                 /\ answers[i].question_id = quizItems[i].id
                 /\ selections[i] = <<>> => answers[i].selected = [text |-> <<>>]
                 /\ (selections[i] # <<>> /\ Unfit(i)) =>
                        DOMAIN answers[i].selected = {"text"}

\* The builder has run on questions of which one has no selection and
\* another holds a selection that does not fit it.
C22_Witness ==
    /\ op = "buildLesson"
    /\ \E i, j \in 1..Len(quizItems) :
         /\ selections[i] = <<>>
         /\ selections[j] # <<>>
         /\ Unfit(j)
         /\ Len(built[1].legacy.answers) = Len(quizItems)

\* The completion percentage the dashboard holds for the category at
\* position i, a missing one counting as 0.
CompletionOf(i) ==
    IF dashboard.cats[i].completion_percentage = <<>> THEN 0
    ELSE dashboard.cats[i].completion_percentage[1]

\* C23: on the dashboard the first category is always unlocked, and every
\* later category is unlocked if and only if the completion percentage of
\* the category immediately before it is at least 60 (missing counts as 0).
C23_UnlockedByPreviousCompletion ==
    \A i \in DOMAIN dashboard.cats :
        dashboard.cats[i].isUnlocked <=> (i = 1 \/ CompletionOf(i - 1) >= 60)

\* Two categories are shown, the first completed to exactly 60 percent.
C23_Witness ==
    /\ op = "dashboardLoaded"
    /\ Len(dashboard.cats) >= 2
    /\ CompletionOf(1) = 60
    /\ dashboard.cats[2].isUnlocked

\* A category is shown locked behind one with no completion percentage.
C23_WitnessLocked ==
    /\ op = "dashboardLoaded"
    /\ Len(dashboard.cats) >= 2
    /\ dashboard.cats[1].completion_percentage = <<>>
    /\ ~dashboard.cats[2].isUnlocked

\* C24: after any sequence of loginWithTokens, logout, init and rehydration
\* (and the reloads between them) the session store has isAuthenticated true
\* if and only if accessToken is not null.
C24_AuthenticatedIffToken ==
    auth.isAuthenticated <=> auth.accessToken # Null

\* A session restored by rehydration after a reload: the store was created
\* anew, and holds the token and the flag again.
C24_Witness ==
    /\ op = "rehydrate"
    /\ prev.auth.accessToken = Null
    /\ ~prev.auth.isAuthenticated
    /\ auth.accessToken = "acc1"
    /\ auth.isAuthenticated

\* A store logged out after a login.
C24_WitnessLoggedOut ==
    /\ op = "logout"
    /\ prev.auth.isAuthenticated
    /\ auth.accessToken = Null
    /\ ~auth.isAuthenticated

\* C25: whenever the lesson player shows a successfully loaded lesson (not
\* loading, no error, a lesson held) the page list is non-empty and
\* pages[current] is a defined page, for every lesson content.
C25_ShownLessonHasCurrentPage ==
    (~player.isLoading /\ player.error = "" /\ lesson # <<>>) =>
        /\ pages # <<>>
        /\ player.current + 1 \in DOMAIN pages

\* What does hold: a lesson without sections (the fallback flow) always has
\* its intro and review pages.
C25_FallbackFlowHasPages ==
    (~player.isLoading /\ player.error = "" /\ lesson # <<>> /\ ~HasContent(lesson[1])) =>
        /\ Len(pages) >= 2
        /\ player.current + 1 \in DOMAIN pages

(***************************************************************************)
(* The loading state of the lesson page, the random quiz page and the      *)
(* lesson quiz page, opened with or without a session.                     *)
(***************************************************************************)
PageRoutes == {"/lessons/1", "/quiz/random", "/quiz/1"}

LessonPageLoadOk ==
    /\ route = "/lessons/1"
    /\ PlayerLoadOk

LessonPageLoadFail ==
    /\ route = "/lessons/1"
    /\ LessonLoadFail

QuizPageLoadOk ==
    /\ route \in {"/quiz/random", "/quiz/1"}
    /\ QuizLoadOk

QuizPageLoadFail ==
    /\ route \in {"/quiz/random", "/quiz/1"}
    /\ QuizLoadFail

\* The load effect of the lesson quiz page without a token: router.push("/login").
QuizPageRedirect ==
    /\ route = "/quiz/1"
    /\ ~Truthy(auth.accessToken)
    /\ route' = "/login"
    /\ Ran("quizRedirect")
    /\ UNCHANGED <<auth, storage, protectedImpl, requests>>

\* A page is opened in a hydrated store, with or without a session; without
\* an access token the load effects of the lesson page and of the random quiz
\* page return at once.
InitLoading ==
    /\ OthersIdle
    /\ LessonIdle
    /\ route \in PageRoutes
    /\ quizMode = (IF route = "/quiz/random" THEN "random" ELSE "lesson")
    /\ quizItems = <<>>
    /\ selections = <<>>
    /\ built = <<>>
    /\ quiz = InitialQuiz
    /\ inFlight = <<>>
    /\ auth \in {setHydrated(InitialAuth, TRUE),
                 loginWithTokens(setHydrated(InitialAuth, TRUE), "acc1", "ref1", "alice")}
    /\ storage = <<auth>>
    /\ protectedImpl \in {"placeholder", "guard"}
    /\ requests = 0
    /\ prev = [auth |-> InitialAuth, storage |-> <<>>, requests |-> 0]
    /\ op = "none"

NextLoading ==
    \/ LessonPageLoadOk
    \/ LessonPageLoadFail
    \/ QuizPageLoadOk
    \/ QuizPageLoadFail
    \/ QuizPageRedirect
    \/ ProtectedRedirect

\* Every request is answered and every effect runs.
SpecLoading ==
    /\ InitLoading
    /\ [][NextLoading]_vars
    /\ WF_vars(LessonPageLoadOk \/ LessonPageLoadFail)
    /\ WF_vars(QuizPageLoadOk \/ QuizPageLoadFail)
    /\ WF_vars(QuizPageRedirect)
    /\ WF_vars(ProtectedRedirect)

\* The open page shows its loading view.
Loading ==
    \/ route = "/lessons/1" /\ player.isLoading
    \/ route \in {"/quiz/random", "/quiz/1"} /\ quiz.isLoading

\* C26: every lesson or quiz page that starts in the loading state
\* eventually leaves it: the flag becomes false once the load request has
\* succeeded or failed, and a page opened without an access token is
\* redirected or shown as not loading.
C26_LoadingEventuallyEnds == [](Loading => <>~Loading)

\* What does hold: a page opened with an access token leaves the loading
\* state, and so does the lesson quiz page in every case.
C26_LoadingEndsWithToken ==
    []((Loading /\ (Truthy(auth.accessToken) \/ route = "/quiz/1")) => <>~Loading)

\* What does hold: where the guarding Protected is built in, every page
\* leaves the loading state.
C26_LoadingEndsUnderGuard ==
    []((Loading /\ protectedImpl = "guard") => <>~Loading)

\* C27: at most one quiz-attempt request is in flight at any time; while one
\* is pending the page is submitting (Submit disabled); a submission starts
\* only on the last question, with no submission pending.
C27_OneAttemptInFlight ==
    /\ [](/\ Len(inFlight) <= 1
          /\ inFlight # <<>> => quiz.isSubmitting)
    /\ [][Len(inFlight') > Len(inFlight) =>
            /\ inFlight = <<>>
            /\ ~quiz.isSubmitting
            /\ quizItems # <<>>
            /\ quiz.currentIdx = Len(quizItems) - 1]_vars

\* An attempt of a quiz of two questions is in flight.
C27_Witness ==
    /\ op = "submit"
    /\ Len(quizItems) = 2
    /\ Len(inFlight) = 1
    /\ quiz.isSubmitting

(***************************************************************************)
(* One visit of a lesson of three pages (the fallback flow with one        *)
(* flashcard: intro, the card, review), long enough to go forward, back    *)
(* and forward again.                                                      *)
(***************************************************************************)
MaxUpdates == 3

VisitLessons == {[content |-> <<>>, flashcards |-> 1]}

VisitLoadOk ==
    /\ player.isLoading
    /\ \E data \in VisitLessons : Loaded(data)

VisitContinue ==
    /\ PlayerShown
    /\ ~ContinueDisabled
    /\ nextWithin(MaxUpdates)
    /\ LessonStep("next")

InitVisit ==
    /\ OthersIdle
    /\ SessionOpen
    /\ QuizIdle
    /\ LessonIdle

NextVisit ==
    \/ VisitLoadOk
    \/ Reveal
    \/ VisitContinue
    \/ Previous
    \/ ProgressSettled

SpecVisit == InitVisit /\ [][NextVisit]_vars

\* C28: the progress percentages sent during one visit never decrease: each
\* update carries a percent greater than or equal to every percent sent
\* before it.
C28_PercentsNeverDecrease ==
    \A i, j \in DOMAIN sent : i < j => sent[i] <= sent[j]

\* What does hold: every update carries the percent of the page the player
\* is then on, so the percents follow the pointer, backwards too.
C28_PercentFollowsPointer ==
    op = "next" => sent[Len(sent)] = RoundPercent(player.current + 1, pagesTotal)

(***************************************************************************)
(* The TokenBuilder components.  A token is a text (a sequence of          *)
(* characters).  The builders of the lesson page, the random quiz page and *)
(* part_008 hold the selection as a list of tokens; the builder of         *)
(* part_009 holds it as one string, the tokens joined by spaces.           *)
(***************************************************************************)
MaxSelected == 3

BuilderImpls == {"page.tsx", "random/page.tsx", "part_008", "part_009"}

TokenLists ==
    {<< <<"a">>, <<"a">> >>,
     << <<"a">>, <<"b">> >>,
     << <<"a">>, <<"b">>, <<"a">> >>,
     << <<"a", " ", "b">>, <<"a">> >>}

\* text.split(" ")
RECURSIVE SplitSpaces(_)
SplitSpaces(text) ==
    LET spaces == {i \in DOMAIN text : text[i] = " "}
    IN  IF spaces = {} THEN <<text>>
        ELSE LET k == CHOOSE i \in spaces : \A j \in spaces : i <= j
             IN  <<SubSeq(text, 1, k - 1)>> \o SplitSpaces(SubSeq(text, k + 1, Len(text)))

\* const selected = value (a list), or value ? value.split(" ") : [] (a string)
Selected ==
    IF builder.impl = "part_009"
    THEN (IF builder.text = <<>> THEN <<>> ELSE SplitSpaces(builder.text))
    ELSE builder.list

\* The tiles offered: the same filter in every builder (a reduce in the
\* random quiz page).
BuilderRemaining == Remaining(builder.tokens, Selected)

BuilderStep(name) ==
    /\ op' = name
    /\ UNCHANGED <<authVars, quizVars, lessonVars, loadVars, apiVars, dashboard, regVars>>

\* A click on an offered tile: add(t).
BuilderAdd ==
    /\ Len(Selected) < MaxSelected
    /\ \E k \in DOMAIN BuilderRemaining :
         LET t == BuilderRemaining[k]
         IN  builder' =
                IF builder.impl = "part_009"
                THEN [builder EXCEPT !.text =
                        (IF builder.text # <<>> THEN builder.text \o <<" ">> ELSE <<>>) \o t]
                ELSE [builder EXCEPT !.list = add(Selected, t)]
    /\ BuilderStep("builderAdd")

\* A click on a selected token: removeAt(i).
BuilderRemoveAt ==
    /\ \E i \in DOMAIN Selected :
         builder' =
            IF builder.impl = "part_009"
            THEN [builder EXCEPT !.text = Join(removeAt(Selected, i), <<" ">>)]
            ELSE [builder EXCEPT !.list = removeAt(Selected, i)]
    /\ BuilderStep("builderRemoveAt")

\* A build task is shown with nothing selected.
InitBuilder ==
    /\ SessionOpen
    /\ QuizIdle
    /\ LessonIdle
    /\ LoadsIdle
    /\ ApiIdle
    /\ DashboardIdle
    /\ RegisterIdle
    /\ \E impl \in BuilderImpls, tokens \in TokenLists :
         builder = [impl |-> impl, tokens |-> tokens, list |-> <<>>, text |-> <<>>]

NextBuilder ==
    \/ BuilderAdd
    \/ BuilderRemoveAt

SpecBuilder == InitBuilder /\ [][NextBuilder]_vars

\* The texts that occur as a task token or as a selected token.
TokensSeen ==
    {builder.tokens[i] : i \in DOMAIN builder.tokens} \cup {Selected[i] : i \in DOMAIN Selected}

\* C29: in the token builder (lesson page, random quiz page, part_009),
\* after any sequence of add and remove actions the selected token list is a
\* sub-multiset of the task's tokens: no token is selected more often than it
\* occurs in the task's token list.
C29_SelectedIsSubMultiset ==
    builder.impl \in {"page.tsx", "random/page.tsx", "part_009"} =>
        \A t \in TokensSeen : Count(Selected, t) <= Count(builder.tokens, t)

\* What does hold: the builders that keep the selection as a list never
\* select a token more often than the task holds it.
C29_ListBuildersKeepSubMultiset ==
    builder.impl # "part_009" =>
        \A t \in TokensSeen : Count(Selected, t) <= Count(builder.tokens, t)

\* C30: the tiles offered as remaining are exactly the task's tokens not yet
\* selected (multiset difference), so the number of remaining tiles plus the
\* number of selected tokens equals the number of task tokens, also when a
\* token occurs more than once (lesson page, random quiz page, part_008).
C30_RemainingIsMultisetDifference ==
    builder.impl \in {"page.tsx", "random/page.tsx", "part_008"} =>
        /\ \A t \in TokensSeen :
              Count(BuilderRemaining, t) = Count(builder.tokens, t) - Count(Selected, t)
        /\ Len(BuilderRemaining) + Len(Selected) = Len(builder.tokens)

\* What does hold: a token is offered, with every tile it has, for as long
\* as it has been selected less often than it occurs.
C30_OfferedWhileNotUsedUp ==
    builder.impl # "part_009" =>
        \A t \in TokensSeen :
            Count(BuilderRemaining, t) =
                (IF Count(Selected, t) < Count(builder.tokens, t)
                 THEN Count(builder.tokens, t) ELSE 0)

=============================================================================
